---- MODULE Spec2Model ----
(***************************************************************************)
(* Bone Animation Copy Tool (src/__init__.py): the mapping collection of   *)
(* BAC_State, the per-mapping constraint synchronisation of                *)
(* BAC_BoneMapping, the list / selection / propagation operators and the   *)
(* bake operator, as a state machine over the host data they touch: the    *)
(* constraint stack of every owner pose bone.                              *)
(*                                                                         *)
(* Host objects are named by strings: the armature objects "O" (the scene  *)
(* owner, scene.kumopult_bac_owner) and "T", None for an unset pointer;    *)
(* bones by their names, "" being the name that resolves to no bone        *)
(* (pose.bones.get("") is None).  A constraint is a record; within one     *)
(* stack the host keeps constraint names unique, and the code reaches a    *)
(* constraint by constraints.get(name), so a constraint is addressed by    *)
(* its name (the first of that name in the stack).                         *)
(*                                                                         *)
(* Indices are the code's: 0-based, active_mapping = -1 for "none";        *)
(* mappings[i] of the code is mappings[i+1] of the sequence here.          *)
(*                                                                         *)
(* The settings calc_offset and ortho_offset are held at their defaults    *)
(* (True, True) and sync_select starts at its default (False): the         *)
(* settings menu is not part of the model.  The sessions with sync_select  *)
(* switched on are those of SpecSelect.                                    *)
(***************************************************************************)
EXTENDS Integers, Sequences, FiniteSets, TLC

VARIABLES mappings, cons, owner, target, active_mapping, selected_count,
          preview, host, last, steps,
          cb_stack, cb_flags, cb_calls, cb_cfg

\* the data of the tool and of the host
data_vars == <<mappings, cons, owner, target, active_mapping, selected_count,
               preview, host, last, steps>>

\* the dispatch of the property-update callbacks: the call stack, the is_updating
\* flags, the number of callback invocations of the running chain, the configuration
cb_vars == <<cb_stack, cb_flags, cb_calls, cb_cfg>>

vars == <<mappings, cons, owner, target, active_mapping, selected_count,
          preview, host, last, steps, cb_stack, cb_flags, cb_calls, cb_cfg>>

----------------------------------------------------------------------------
(* Bounds of the model *)

\* the collection never grows beyond this many mappings
MaxMappings == 2

\* a session is at most this many operator runs and property writes
MaxSteps == 4

\* the longest list the reorder specification starts from
MaxRows == 3

\* the runs of BAC_OT_NameMapping in a session of SpecNames
MaxMatches == 1

\* the calls of the prototype's apply and the edits of its mapping in a session
MaxApplies == 3

----------------------------------------------------------------------------
(* The host's data *)

\* the property groups: the BAC_State (0) and the mappings
Entities == 0..MaxMappings

\* the configuration of the callback dispatch while no chain has run
CbIdle ==
    [n |-> 0, stores |-> FALSE, sync |-> FALSE, shared |-> TRUE, root |-> "",
     raised |-> FALSE]

None == "none"

\* scene.kumopult_bac_owner: the armature object whose data carries the state
SceneOwner == "O"

OwnerBones == {"L", "R"}

TargetBones == {"L", "R"}

\* the armature objects of the scene
Armatures == {SceneOwner, "T"}

\* armature.data.bones in the host's enumeration order
BoneOrder == <<"L", "R">>

\* two further rigs a user can pick as target, with the bones in the host's order
RigBones == [N1 |-> <<"LL", "LR", "RL", "L", "R", "RR">>, N2 |-> <<"RL", "LR", "RR">>]

\* the rigs by name
Rigs == DOMAIN RigBones

\* obj.pose.bones: the names that resolve on an object
PoseBones(obj) ==
    IF obj = "O" THEN OwnerBones
    ELSE IF obj = "T" THEN TargetBones
    ELSE IF obj \in Rigs THEN {RigBones[obj][k] : k \in 1..Len(RigBones[obj])}
    ELSE {}

\* bone names a user can type or pick in a bone field
BoneNames == {"", "L", "R"}

\* what the target pointer can be set to
TargetChoices == {None, "T"}

\* bpy.utils.flip_name
flip_name(n) == IF n = "L" THEN "R" ELSE IF n = "R" THEN "L" ELSE n

\* bone.children, per armature object: "L" has the one child "R"
Children(obj, n) ==
    IF n = "L" /\ n \in PoseBones(obj) THEN <<"R">> ELSE <<>>

\* the settings of BAC_State, at their defaults
sync_select == FALSE

calc_offset == TRUE

ortho_offset == TRUE

\* a quarter turn (pi/2) in the integer angle unit of the model, pi/8
QuarterTurn == 4

\* the Euler component the host computes from the pose matrices of an owner bone and a
\* target bone: bones of the same name are nearly aligned, the others a quarter turn apart
HostEuler(ob, tb) == IF ob = tb THEN 1 ELSE QuarterTurn

BAC_ROT_COPY == "BAC_ROT_COPY"

BAC_ROT_ROLL == "BAC_ROT_ROLL"

BAC_LOC_COPY == "BAC_LOC_COPY"

BAC_IK == "BAC_IK"

ReservedNames == {BAC_ROT_COPY, BAC_ROT_ROLL, BAC_LOC_COPY, BAC_IK}

----------------------------------------------------------------------------
(* Constraint stacks *)

\* a constraint as constraints.new(ctype) returns it, renamed and tagged
NewCon(ctype, name) ==
    [name |-> name, ctype |-> ctype, tag |-> TRUE, enabled |-> TRUE,
     target |-> None, subtarget |-> "", param |-> 0, cfg |-> ""]

\* a constraint the user authored: it carries no marker tag
UserCon(ctype, name, en) ==
    [name |-> name, ctype |-> ctype, tag |-> FALSE, enabled |-> en,
     target |-> None, subtarget |-> "", param |-> 0, cfg |-> ""]

\* the constraints the user authored before the tool runs: on "L" a disabled limit and
\* a rotation copy that happens to carry a reserved name, on "R" an enabled limit
UserStacks ==
    [b \in OwnerBones |->
        IF b = "L"
        THEN << UserCon("LIMIT_ROTATION", "Limit", FALSE),
                UserCon("COPY_ROTATION", BAC_ROT_COPY, TRUE) >>
        ELSE << UserCon("LIMIT_ROTATION", "Limit", TRUE) >>]

\* constraints.get(name): the position of the first constraint of that name, 0 for None
IndexOf(stack, name) ==
    IF \E i \in 1..Len(stack) : stack[i].name = name
    THEN CHOOSE i \in 1..Len(stack) :
            /\ stack[i].name = name
            /\ \A j \in 1..(i-1) : stack[j].name # name
    ELSE 0

\* constraints.remove(con), con being the first constraint of that name
RemoveAt(stack, k) ==
    SubSeq(stack, 1, k - 1) \o SubSeq(stack, k + 1, Len(stack))

----------------------------------------------------------------------------
(* BAC_BoneMapping *)

\* a mapping as mappings.add() creates it: the property defaults
NewMapping ==
    [selected_owner |-> "", owner |-> "", target |-> "",
     has_rotoffs |-> FALSE, has_loccopy |-> FALSE, has_ik |-> FALSE,
     offset |-> 0, loc_axis |-> 7, ik_influence |-> 1, selected |-> FALSE]

\* the owner pose bone of mapping m, "" for None
get_owner_pose_bone(w, m) ==
    IF w.owner = None THEN ""
    ELSE IF m.owner \in PoseBones(w.owner) THEN m.owner ELSE ""

\* the target pose bone of mapping m, "" for None
get_target_pose_bone(w, m) ==
    IF w.target = None THEN ""
    ELSE IF m.target \in PoseBones(w.target) THEN m.target ELSE ""

is_valid(w, m) ==
    get_owner_pose_bone(w, m) # "" /\ get_target_pose_bone(w, m) # ""

\* mutant: a fresh constraint is created even when one of that name exists
new_constraint_always(stack, ctype, name, rej) ==
    Append(stack, NewCon(ctype, name))

\* the stack after _new_constraint: the constraint of that name is reused, else created.
\* rej is the set of constraint types for which constraints.new raises RuntimeError on
\* this bone: the exception is caught and None is returned, the stack staying as it is
new_constraint(stack, ctype, name, rej) ==
    IF IndexOf(stack, name) # 0 THEN stack
    ELSE IF ctype \in rej THEN stack
    ELSE Append(stack, NewCon(ctype, name))

\* the stack after get_constraint(kind): roll and ik are set up on every call,
\* which fails (AttributeError, caught) on a constraint of another type and on None
get_constraint(stack, kind, rej) ==
    IF kind = "rot" THEN new_constraint(stack, "COPY_ROTATION", BAC_ROT_COPY, rej)
    ELSE IF kind = "roll" THEN
        LET s == new_constraint(stack, "TRANSFORM", BAC_ROT_ROLL, rej)
            k == IndexOf(s, BAC_ROT_ROLL)
        IN  IF k # 0 /\ s[k].ctype = "TRANSFORM" THEN [s EXCEPT ![k].cfg = "roll"] ELSE s
    ELSE IF kind = "loc" THEN new_constraint(stack, "COPY_LOCATION", BAC_LOC_COPY, rej)
    ELSE IF kind = "ik" THEN
        LET s == new_constraint(stack, "IK", BAC_IK, rej)
            k == IndexOf(s, BAC_IK)
        IN  IF k # 0 /\ s[k].ctype = "IK" THEN [s EXCEPT ![k].cfg = "ik"] ELSE s
    ELSE stack

\* constraint types that have the target / subtarget attributes
HasTarget(ctype) == ctype \in {"COPY_ROTATION", "TRANSFORM", "COPY_LOCATION", "IK"}

\* the stack after _remove_constraint(con), con at position k (0: None)
remove_constraint(stack, k) ==
    IF k = 0 THEN stack
    ELSE IF stack[k].tag THEN RemoveAt(stack, k) ELSE stack

\* one of the three toggled blocks of _apply (roll, loc, ik)
apply_toggled(stack, name, ctype, on, param, w, m) ==
    LET k == IndexOf(stack, name) IN
    IF k = 0 THEN stack
    ELSE IF on /\ is_valid(w, m) THEN
        IF stack[k].ctype = ctype
        THEN [stack EXCEPT ![k] = [@ EXCEPT !.param = param,
                                            !.target = w.target,
                                            !.subtarget = m.target,
                                            !.enabled = w.preview]]
        ELSE stack
    ELSE remove_constraint(stack, k)

\* the rotation-copy block of _apply
apply_rot(stack, w, m) ==
    LET k == IndexOf(stack, BAC_ROT_COPY) IN
    IF k = 0 THEN stack
    ELSE IF HasTarget(stack[k].ctype)
    THEN [stack EXCEPT ![k] = [@ EXCEPT !.target = w.target,
                                        !.subtarget = m.target,
                                        !.enabled = is_valid(w, m) /\ w.preview]]
    ELSE stack

\* the stack after the four get_constraint calls of _apply
get_constraints(stack, rej) ==
    get_constraint(get_constraint(get_constraint(get_constraint(stack, "rot", rej),
                                                 "roll", rej), "loc", rej), "ik", rej)

\* the roll block of _apply
apply_roll(stack, w, m) ==
    apply_toggled(stack, BAC_ROT_ROLL, "TRANSFORM", m.has_rotoffs, m.offset, w, m)

\* the location-copy block of _apply
apply_loc(stack, w, m) ==
    apply_toggled(stack, BAC_LOC_COPY, "COPY_LOCATION", m.has_loccopy, m.loc_axis, w, m)

\* the IK block of _apply
apply_ik(stack, w, m) ==
    apply_toggled(stack, BAC_IK, "IK", m.has_ik, m.ik_influence, w, m)

\* the constraint types the host refuses to create on the owner bone of mapping m
Refused(w, m) == w.host.rejects[m.owner]

\* mutant: a refused creation ends _apply, the stack staying as it was
apply_stack_giving_up(stack, w, m) ==
    IF get_constraints(stack, Refused(w, m)) # get_constraints(stack, {})
    THEN stack
    ELSE apply_ik(apply_loc(apply_roll(apply_rot(get_constraints(stack, {}), w, m),
                                       w, m), w, m), w, m)

\* the owner bone's stack after _apply, for a mapping whose two bones resolve
apply_stack(stack, w, m) ==
    apply_ik(apply_loc(apply_roll(apply_rot(get_constraints(stack, Refused(w, m)),
                                            w, m), w, m), w, m), w, m)

\* cons after mapping m's _apply: nothing happens unless both bones resolve
apply(w, m) ==
    LET b == get_owner_pose_bone(w, m) IN
    IF b = "" \/ get_target_pose_bone(w, m) = "" THEN w.cons
    ELSE [w.cons EXCEPT ![b] = apply_stack(@, w, m)]

\* the stack without its tagged constraints
Untagged(stack) == SelectSeq(stack, LAMBDA c : ~c.tag)

\* mutant: clear_constraints releases the rotation copy only
clear_constraints_rot_only(w, m) ==
    LET b == get_owner_pose_bone(w, m) IN
    IF b = "" THEN w.cons
    ELSE [w.cons EXCEPT ![b] =
            SelectSeq(@, LAMBDA c : ~(c.tag /\ c.name = BAC_ROT_COPY))]

\* cons after clear_constraints: every tagged constraint leaves the owner bone
clear_constraints(w, m) ==
    LET b == get_owner_pose_bone(w, m) IN
    IF b = "" THEN w.cons
    ELSE [w.cons EXCEPT ![b] = Untagged(@)]

----------------------------------------------------------------------------
(* The property-update callbacks of BAC_BoneMapping.  w is the state the    *)
(* callback runs in: [ms, cons, owner, target, active, count, preview,     *)
(* host]; k is the mapping's position in w.ms (1-based).                    *)

\* mutant: the quotient is cut off, not rounded
Round_flooring(raw, step) == raw \div step

\* Python's round(raw / step): to the nearest integer, a tie to the even one
Round(raw, step) ==
    LET q == raw \div step
        r == raw % step
    IN  IF 2 * r < step THEN q
        ELSE IF 2 * r > step THEN q + 1
        ELSE IF q % 2 = 0 THEN q ELSE q + 1

\* the write of a property whose update callback is _apply
write_apply(w1, k) == [w1 EXCEPT !.cons = apply(w1, w1.ms[k])]

set_offset(w, k, v) == write_apply([w EXCEPT !.ms[k].offset = v], k)

set_has_rotoffs(w, k, b) == write_apply([w EXCEPT !.ms[k].has_rotoffs = b], k)

set_has_loccopy(w, k, b) == write_apply([w EXCEPT !.ms[k].has_loccopy = b], k)

set_has_ik(w, k, b) == write_apply([w EXCEPT !.ms[k].has_ik = b], k)

\* self.owner = self.selected_owner
take_owner(w, k) == [w EXCEPT !.ms[k].owner = w.ms[k].selected_owner]

\* _on_owner: release the constraints of the old owner bone, take the new name, synchronise
on_owner(w, k) ==
    write_apply(take_owner([w EXCEPT !.cons = clear_constraints(w, w.ms[k])], k), k)

set_selected_owner(w, k, name) ==
    on_owner([w EXCEPT !.ms[k].selected_owner = name], k)

\* the rotation offset _on_target computes from the host's Euler component raw
auto_offset(raw) ==
    IF ortho_offset THEN Round(raw, QuarterTurn) * QuarterTurn ELSE raw

\* the Euler component _on_target arrives at for mapping k
target_euler(w, k) == auto_offset(HostEuler(w.ms[k].owner, w.ms[k].target))

\* the conditions under which _on_target stores the automatic offset
stores_offset(w, k) ==
    /\ is_valid(w, w.ms[k])
    /\ calc_offset
    /\ w.target # None
    /\ w.owner # None
    /\ target_euler(w, k) # 0

\* mutant: when no offset is stored, the offset and its toggle are reset
on_target_resetting(w, k) ==
    write_apply(IF stores_offset(w, k)
                THEN set_has_rotoffs(set_offset(w, k, target_euler(w, k)), k, TRUE)
                ELSE [w EXCEPT !.ms[k].offset = 0, !.ms[k].has_rotoffs = FALSE], k)

\* _on_target: a non-zero automatic offset is stored and switched on, then synchronise
on_target(w, k) ==
    write_apply(IF stores_offset(w, k)
                THEN set_has_rotoffs(set_offset(w, k, target_euler(w, k)), k, TRUE)
                ELSE w, k)

set_target(w, k, name) ==
    on_target([w EXCEPT !.ms[k].target = name], k)

\* the three components of the Euler e the host computed, each as _on_target stores it
snap_euler(e) == [i \in 1..3 |-> auto_offset(e[i])]

\* _on_target with all three components of the offset, e being the Euler the host
\* computes from the pose matrices
on_target_euler(w, k, e) ==
    write_apply(IF /\ is_valid(w, w.ms[k])
                   /\ calc_offset
                   /\ w.target # None
                   /\ w.owner # None
                   /\ snap_euler(e) # <<0, 0, 0>>
                THEN set_has_rotoffs(set_offset(w, k, snap_euler(e)), k, TRUE)
                ELSE w, k)

\* sum(1 for mapping in state.mappings if mapping.selected)
CountSelected(ms) == Cardinality({i \in 1..Len(ms) : ms[i].selected})

\* {mapping.owner for mapping in self.mappings if mapping.selected}
owner_sel(ms) == {ms[i].owner : i \in {j \in 1..Len(ms) : ms[j].selected}}

\* {mapping.target for mapping in self.mappings if mapping.selected}
target_sel(ms) == {ms[i].target : i \in {j \in 1..Len(ms) : ms[j].selected}}

\* mutant: the loop only selects, a bone selected before stays selected
select_in_merging(select, obj, names) ==
    [select EXCEPT ![obj] = @ \cup (PoseBones(obj) \cap names)]

\* for bone in obj.data.bones: bone.select = bone.name in names
select_in(select, obj, names) == [select EXCEPT ![obj] = PoseBones(obj) \cap names]

\* update_select, its body: the owner armature's bones first, the target armature's after
update_select(w) ==
    IF w.host.sync_select /\ w.owner # None /\ w.target # None
    THEN [w EXCEPT !.host.select =
              select_in(select_in(w.host.select, w.owner, owner_sel(w.ms)),
                        w.target, target_sel(w.ms))]
    ELSE w

\* obj.data.bones.active = bone, when bones.get(name) finds the bone
set_active_bone(w, obj, name) ==
    IF name \in PoseBones(obj) THEN [w EXCEPT !.host.active[obj] = name] ELSE w

\* the target half of update_active: if self.target: ...
active_target(w) ==
    IF w.target # None
    THEN set_active_bone(w, w.target, w.ms[w.active + 1].target)
    ELSE w

\* mutant: update_active with the body of update_select run by its call
update_active_selecting(w) ==
    IF ~w.host.sync_select THEN w
    ELSE IF 0 <= w.active /\ w.active < Len(w.ms)
    THEN IF w.owner = None THEN update_select(w)
         ELSE active_target(set_active_bone(update_select(w), w.owner,
                                            w.ms[w.active + 1].owner))
    ELSE update_select(w)

\* update_active.  Its call self.update_select(context) goes through the wrapper of
\* update_select on the same self, whose is_updating the wrapper of update_active has
\* set: the wrapper returns None and the body of update_select does not run.  With no
\* owner armature self.owner.data raises, and the callback ends there.
update_active(w) ==
    IF ~w.host.sync_select THEN w
    ELSE IF 0 <= w.active /\ w.active < Len(w.ms)
    THEN IF w.owner = None THEN w
         ELSE active_target(set_active_bone(w, w.owner, w.ms[w.active + 1].owner))
    ELSE w

set_active(w, v) == update_active([w EXCEPT !.active = v])

set_count(w, v) == update_select([w EXCEPT !.count = v])

\* mutant: the callback of selected leaves the cached count alone
on_selected_stale(w) == w

\* _on_selected: recount, the write running update_select
on_selected(w) == set_count(w, CountSelected(w.ms))

set_selected(w, k, b) == on_selected([w EXCEPT !.ms[k].selected = b])

----------------------------------------------------------------------------
(* BAC_State *)

RECURSIVE ApplyFrom(_, _)
\* for mapping in self.mappings: mapping._apply(context), from position k on
ApplyFrom(w, k) ==
    IF k > Len(w.ms) THEN w
    ELSE ApplyFrom(write_apply(w, k), k + 1)

\* update_preview
update_preview(w) == ApplyFrom(w, 1)

set_preview(w, b) == update_preview([w EXCEPT !.preview = b])

\* mutant: the mappings that are invalid under the new target are dropped
update_target_dropping(w, sel) ==
    ApplyFrom([w EXCEPT !.owner = SceneOwner, !.target = sel,
                        !.ms = SelectSeq(w.ms, LAMBDA m :
                                    is_valid([w EXCEPT !.owner = SceneOwner,
                                                       !.target = sel], m))], 1)

\* update_target: the owner is re-read from the scene, the target taken over
update_target(w, sel) ==
    ApplyFrom([w EXCEPT !.owner = SceneOwner, !.target = sel], 1)

RECURSIVE SelectedDesc(_, _)
\* [i for i in range(len-1, -1, -1) if mappings[i].selected], from 0-based i down
SelectedDesc(ms, i) ==
    IF i < 0 THEN <<>>
    ELSE IF ms[i+1].selected THEN <<i>> \o SelectedDesc(ms, i - 1)
    ELSE SelectedDesc(ms, i - 1)

\* mutant: the active mapping is the selection whatever the counter says
get_selection_active_only(w) ==
    IF 0 <= w.active /\ w.active < Len(w.ms)
    THEN <<w.active>>
    ELSE SelectedDesc(w.ms, Len(w.ms) - 1)

\* mutant: the selected indices from the lowest to the highest
get_selection_ascending(w) ==
    IF w.count = 0 /\ 0 <= w.active /\ w.active < Len(w.ms)
    THEN <<w.active>>
    ELSE [j \in 1..Len(SelectedDesc(w.ms, Len(w.ms) - 1)) |->
            SelectedDesc(w.ms, Len(w.ms) - 1)[Len(SelectedDesc(w.ms, Len(w.ms) - 1)) + 1 - j]]

\* get_selection: 0-based indices
get_selection(w) ==
    IF w.count = 0 /\ 0 <= w.active /\ w.active < Len(w.ms)
    THEN <<w.active>>
    ELSE SelectedDesc(w.ms, Len(w.ms) - 1)

\* get_mapping_by_owner: the 0-based index of the first mapping of that owner, -1 for none
get_mapping_by_owner(w, name) ==
    IF name # "" /\ \E i \in 1..Len(w.ms) : w.ms[i].owner = name
    THEN (CHOOSE i \in 1..Len(w.ms) :
            /\ w.ms[i].owner = name
            /\ \A j \in 1..(i-1) : w.ms[j].owner # name) - 1
    ELSE -1

Min(a, b) == IF a < b THEN a ELSE b

Max(a, b) == IF a > b THEN a ELSE b

\* mappings.move(from, to), 0-based
Move(ms, from, to) ==
    LET f == from + 1
        t == to + 1
        rest == RemoveAt(ms, f)
    IN  SubSeq(rest, 1, t - 1) \o <<ms[f]>> \o SubSeq(rest, t, Len(rest))

\* the branch of add_mapping for an owner that mapping ex (0-based) has already
add_existing(w, ex, tgt) ==
    [w |-> set_active(set_target(w, ex + 1, tgt), ex), idx |-> ex]

\* mappings.move(len - 1, final); active_mapping = final
move_new(w, final) ==
    [w |-> set_active([w EXCEPT !.ms = Move(w.ms, Len(w.ms) - 1, final)], final),
     idx |-> final]

\* mutant: the new mapping stays where mappings.add() put it, at the end
add_new_appending(w, own, tgt, index) ==
    move_new(set_target(set_selected_owner([w EXCEPT !.ms = Append(w.ms, NewMapping)],
                                           Len(w.ms) + 1, own),
                        Len(w.ms) + 1, tgt),
             Len(w.ms))

\* the branch of add_mapping that creates a mapping; index is the resolved index
add_new(w, own, tgt, index) ==
    move_new(set_target(set_selected_owner([w EXCEPT !.ms = Append(w.ms, NewMapping)],
                                           Len(w.ms) + 1, own),
                        Len(w.ms) + 1, tgt),
             Max(0, Min(index, Len(w.ms))))

\* mutant: an existing owner is not looked up, a second mapping is appended
add_mapping_duplicating(w, own, tgt, index) ==
    add_new(w, own, tgt, IF index = -1 THEN w.active + 1 ELSE index)

\* add_mapping: [w: the state after, idx: the 0-based index returned]
add_mapping(w, own, tgt, index) ==
    IF get_mapping_by_owner(w, own) # -1
    THEN add_existing(w, get_mapping_by_owner(w, own), tgt)
    ELSE add_new(w, own, tgt, IF index = -1 THEN w.active + 1 ELSE index)

\* mappings[i].clear_constraints(); mappings.remove(i)
remove_one(w, i) ==
    [w EXCEPT !.cons = clear_constraints(w, w.ms[i+1]), !.ms = RemoveAt(w.ms, i + 1)]

RECURSIVE RemoveEach(_, _)
\* the loop of remove_mapping over the selection sel
RemoveEach(w, sel) ==
    IF sel = <<>> THEN w
    ELSE RemoveEach(remove_one(w, Head(sel)), Tail(sel))

\* active_mapping = min(active_mapping, max(0, len(mappings) - 1))
clamp_active(w) == set_active(w, Min(w.active, Max(0, Len(w.ms) - 1)))

\* remove_mapping
remove_mapping(w) ==
    set_count(clamp_active(RemoveEach(w, get_selection(w))), 0)

----------------------------------------------------------------------------
(* The operators *)

RECURSIVE SelectEach(_, _, _)
\* for mapping in state.mappings: mapping.selected = <value>, each write recounting
SelectEach(w, k, val) ==
    IF k > Len(w.ms) THEN w
    ELSE SelectEach(set_selected(w, k, IF val = "not" THEN ~w.ms[k].selected
                                       ELSE val = "true"), k + 1, val)

\* the count BAC_OT_SelectAction writes after its loop
action_count(w, action) ==
    IF action = "ALL" THEN Len(w.ms)
    ELSE IF action = "INVERSE" THEN CountSelected(w.ms)
    ELSE 0

\* state.selected_count = <the count of the action>
write_count(w, action) == set_count(w, action_count(w, action))

\* BAC_OT_SelectAction.execute
select_action(w, action) ==
    write_count(SelectEach(w, 1, IF action = "ALL" THEN "true"
                                 ELSE IF action = "INVERSE" THEN "not"
                                 ELSE "false"),
                action)

RECURSIVE AddEach(_, _)
\* [state.add_mapping(name, '') for name in names]
AddEach(w, names) ==
    IF names = <<>> THEN w
    ELSE AddEach(add_mapping(w, Head(names), "", -1).w, Tail(names))

\* [bone.name for bone in state.owner.data.bones if bone.select], sel the selected bones
SelectedNames(sel) == SelectSeq(BoneOrder, LAMBDA n : n \in sel)

\* ListAction ADD_SELECT; with no owner object the attribute access raises
list_add_select(w, sel) ==
    IF w.owner = None THEN w
    ELSE IF SelectedNames(sel) # <<>> THEN AddEach(w, SelectedNames(sel))
    ELSE add_mapping(w, "", "", -1).w

\* ListAction ADD_ACTIVE; oa, ta: the active bone names of the two armatures, "" for none
list_add_active(w, oa, ta) ==
    add_mapping(w, IF w.owner # None THEN oa ELSE "",
                   IF w.target # None THEN ta ELSE "", -1).w

RECURSIVE MoveUpEach(_, _)
\* the multi-selection loop of UP over the indices idxs (ascending)
MoveUpEach(w, idxs) ==
    IF idxs = <<>> THEN w
    ELSE LET i == Head(idxs) IN
         MoveUpEach(IF ~w.ms[i].selected       \* mappings[i-1], 0-based
                    THEN [w EXCEPT !.ms = Move(w.ms, i, i - 1)] ELSE w,
                    Tail(idxs))

RECURSIVE MoveDownEach(_, _)
\* the multi-selection loop of DOWN over the indices idxs (descending)
MoveDownEach(w, idxs) ==
    IF idxs = <<>> THEN w
    ELSE LET i == Head(idxs) IN
         MoveDownEach(IF ~w.ms[i+2].selected   \* mappings[i+1], 0-based
                      THEN [w EXCEPT !.ms = Move(w.ms, i, i + 1)] ELSE w,
                      Tail(idxs))

\* the 0-based indices lo..hi whose mapping is selected, ascending
SelectedAsc(ms, lo, hi) ==
    SelectSeq([j \in 1..Max(0, hi - lo + 1) |-> lo + j - 1],
              LAMBDA i : ms[i+1].selected)

\* a sequence reversed
Reverse(q) == [j \in 1..Len(q) |-> q[Len(q) + 1 - j]]

\* mutant: UP walks the selected indices from the bottom
list_up_descending(w) ==
    IF w.count = 0 THEN
        IF Len(w.ms) > w.active /\ w.active > 0
        THEN set_active([w EXCEPT !.ms = Move(w.ms, w.active, w.active - 1)],
                        w.active - 1)
        ELSE w
    ELSE MoveUpEach(w, Reverse(SelectedAsc(w.ms, 1, Len(w.ms) - 1)))

\* mutant: UP with a multi-selection moves row 1 above row 0, selected or not
list_up_leapfrogging(w) ==
    IF w.count = 0 THEN
        IF Len(w.ms) > w.active /\ w.active > 0
        THEN set_active([w EXCEPT !.ms = Move(w.ms, w.active, w.active - 1)],
                        w.active - 1)
        ELSE w
    ELSE IF Len(w.ms) > 1 THEN [w EXCEPT !.ms = Move(w.ms, 1, 0)] ELSE w

\* ListAction UP
list_up(w) ==
    IF w.count = 0 THEN
        IF Len(w.ms) > w.active /\ w.active > 0
        THEN set_active([w EXCEPT !.ms = Move(w.ms, w.active, w.active - 1)],
                        w.active - 1)
        ELSE w
    ELSE MoveUpEach(w, SelectedAsc(w.ms, 1, Len(w.ms) - 1))

\* mutant: DOWN without a multi-selection moves the row and leaves the active index
list_down_losing_active(w) ==
    IF w.count = 0 THEN
        IF Len(w.ms) > w.active + 1 /\ w.active + 1 > 0
        THEN [w EXCEPT !.ms = Move(w.ms, w.active, w.active + 1)]
        ELSE w
    ELSE MoveDownEach(w, Reverse(SelectedAsc(w.ms, 0, Len(w.ms) - 2)))

\* ListAction DOWN
list_down(w) ==
    IF w.count = 0 THEN
        IF Len(w.ms) > w.active + 1 /\ w.active + 1 > 0
        THEN set_active([w EXCEPT !.ms = Move(w.ms, w.active, w.active + 1)],
                        w.active + 1)
        ELSE w
    ELSE MoveDownEach(w, Reverse(SelectedAsc(w.ms, 0, Len(w.ms) - 2)))

\* if mapping.selected: mapping.selected = False, for mappings[i] (0-based)
deselect(w, i) ==
    IF w.ms[i+1].selected THEN set_selected(w, i + 1, FALSE) ELSE w

\* new_mapping.selected = True, r what add_mapping returned
select_new(r) == set_selected(r.w, r.idx + 1, TRUE)

\* armature.bones[name] of both armatures succeeds for mappings[i]
bones_found(w, i) ==
    /\ w.target # None
    /\ w.ms[i+1].target \in PoseBones(w.target)
    /\ w.owner # None
    /\ w.ms[i+1].owner \in PoseBones(w.owner)

\* len(target_children) == len(owner_children) == 1
single_children(w, i) ==
    /\ Len(Children(w.target, w.ms[i+1].target)) = 1
    /\ Len(Children(w.owner, w.ms[i+1].owner)) = 1

\* the child mapping added below mappings[i]
add_child(w, i) ==
    add_mapping(w, Children(w.owner, w.ms[i+1].owner)[1],
                   Children(w.target, w.ms[i+1].target)[1], i + 1)

RECURSIVE ChildEach(_, _, _)
\* the loop of BAC_OT_ChildMapping.execute over sel, w being the state after the
\* deselection of mappings[i]; a bone lookup that raises ends the operator
ChildEach(w, i, sel) ==
    IF ~bones_found(w, i) THEN w
    ELSE IF single_children(w, i)
    THEN IF sel = <<>> THEN select_new(add_child(w, i))
         ELSE ChildEach(deselect(select_new(add_child(w, i)), Head(sel)),
                        Head(sel), Tail(sel))
    ELSE IF sel = <<>> THEN w
         ELSE ChildEach(deselect(w, Head(sel)), Head(sel), Tail(sel))

\* BAC_OT_ChildMapping.execute
child_mapping(w) ==
    IF get_selection(w) = <<>> THEN w
    ELSE ChildEach(deselect(w, Head(get_selection(w))), Head(get_selection(w)),
                   Tail(get_selection(w)))

\* both mirrored bones exist for mappings[i]
mirror_found(w, i) ==
    /\ flip_name(w.ms[i+1].owner) \in PoseBones(w.owner)
    /\ flip_name(w.ms[i+1].target) \in PoseBones(w.target)

\* the mirrored mapping added below mappings[i]
add_mirror(w, i) ==
    add_mapping(w, flip_name(w.ms[i+1].owner), flip_name(w.ms[i+1].target), i + 1)

RECURSIVE MirrorEach(_, _, _)
\* the loop of BAC_OT_MirrorMapping.execute over sel, w being the state after the
\* deselection of mappings[i]; get_owner_pose() / get_target_pose() of an unset
\* armature is None and the access raises
MirrorEach(w, i, sel) ==
    IF w.owner = None \/ w.target = None THEN w
    ELSE IF mirror_found(w, i)
    THEN IF sel = <<>> THEN select_new(add_mirror(w, i))
         ELSE MirrorEach(deselect(select_new(add_mirror(w, i)), Head(sel)),
                         Head(sel), Tail(sel))
    ELSE IF sel = <<>> THEN w
         ELSE MirrorEach(deselect(w, Head(sel)), Head(sel), Tail(sel))

\* BAC_OT_MirrorMapping.execute
mirror_mapping(w) ==
    IF get_selection(w) = <<>> THEN w
    ELSE MirrorEach(deselect(w, Head(get_selection(w))), Head(get_selection(w)),
                    Tail(get_selection(w)))

\* bone.parent.name, "" for a bone without parent: "R" is the child of "L"
Parent(obj, n) == IF n = "R" /\ n \in PoseBones(obj) THEN "L" ELSE ""

\* the characters of a name
Letters(n) ==
    IF n = "" THEN <<>>
    ELSE IF n \in {"L", "R"} THEN <<n>>
    ELSE IF n = "LL" THEN <<"L", "L">>
    ELSE IF n = "LR" THEN <<"L", "R">>
    ELSE IF n = "RL" THEN <<"R", "L">>
    ELSE IF n = "RR" THEN <<"R", "R">>
    ELSE <<>>

\* how often character c occurs in the string q
Occurs(q, c) == Cardinality({k \in 1..Len(q) : q[k] = c})

\* the matches quick_ratio counts: every character of a that b still has a copy of
Matches(a, b) ==
    (IF Occurs(a, "L") < Occurs(b, "L") THEN Occurs(a, "L") ELSE Occurs(b, "L"))
    + (IF Occurs(a, "R") < Occurs(b, "R") THEN Occurs(a, "R") ELSE Occurs(b, "R"))

\* difflib.SequenceMatcher(None, a, b).quick_ratio(): 2.0 * matches / (len(a) + len(b)),
\* 1.0 for two empty strings; the quotient as numerator and denominator
quick_ratio(a, b) ==
    IF Len(Letters(a)) + Len(Letters(b)) = 0 THEN [num |-> 1, den |-> 1]
    ELSE [num |-> 2 * Matches(Letters(a), Letters(b)),
          den |-> Len(Letters(a)) + Len(Letters(b))]

\* score > best_score, of two quotients
Greater(score, best_score) == score.num * best_score.den > best_score.num * score.den

\* name.startswith(fix)
startswith(name, fix) ==
    /\ Len(Letters(fix)) <= Len(Letters(name))
    /\ SubSeq(Letters(name), 1, Len(Letters(fix))) = Letters(fix)

\* name.endswith(fix)
endswith(name, fix) ==
    /\ Len(Letters(fix)) <= Len(Letters(name))
    /\ SubSeq(Letters(name), Len(Letters(name)) - Len(Letters(fix)) + 1,
              Len(Letters(name))) = Letters(fix)

\* the two filters of the loop let the name through
passes_fix(name, prefix, suffix) ==
    /\ prefix = "" \/ startswith(name, prefix)
    /\ suffix = "" \/ endswith(name, suffix)

\* armature.bones of the object obj in the host's order
BonesOf(obj) ==
    IF obj \in Rigs THEN RigBones[obj]
    ELSE SelectSeq(BoneOrder, LAMBDA n : n \in PoseBones(obj))

RECURSIVE BestName_last_of_ties(_, _, _, _, _, _)
\* mutant: a bone whose score equals the best so far replaces it
BestName_last_of_ties(own, names, prefix, suffix, best, score) ==
    IF names = <<>> THEN best
    ELSE IF ~passes_fix(Head(names), prefix, suffix)
    THEN BestName_last_of_ties(own, Tail(names), prefix, suffix, best, score)
    ELSE IF ~Greater(score, quick_ratio(own, Head(names)))
    THEN BestName_last_of_ties(own, Tail(names), prefix, suffix, Head(names),
                               quick_ratio(own, Head(names)))
    ELSE BestName_last_of_ties(own, Tail(names), prefix, suffix, best, score)

RECURSIVE BestName(_, _, _, _, _, _)
\* the loop over the target bones by name similarity: the best name and its score
BestName(own, names, prefix, suffix, best, score) ==
    IF names = <<>> THEN best
    ELSE IF ~passes_fix(Head(names), prefix, suffix)
    THEN BestName(own, Tail(names), prefix, suffix, best, score)
    ELSE IF Greater(quick_ratio(own, Head(names)), score)
    THEN BestName(own, Tail(names), prefix, suffix, Head(names),
                  quick_ratio(own, Head(names)))
    ELSE BestName(own, Tail(names), prefix, suffix, best, score)

RECURSIVE HierarchyName(_, _, _)
\* the loop over the target bones by hierarchy: the first bone whose parent is the
\* mapping's target while the parent of the owner bone is the mapping's owner
HierarchyName(w, m, names) ==
    IF names = <<>> THEN ""
    ELSE IF /\ Parent(w.owner, m.owner) # ""
            /\ Parent(w.target, Head(names)) # ""
            /\ Parent(w.owner, m.owner) = m.owner
            /\ Parent(w.target, Head(names)) = m.target
    THEN Head(names)
    ELSE HierarchyName(w, m, Tail(names))

\* best_match for mappings[i]
best_match(w, i, prefix, suffix, use_hierarchy) ==
    IF use_hierarchy THEN HierarchyName(w, w.ms[i+1], BonesOf(w.target))
    ELSE BestName(w.ms[i+1].owner, BonesOf(w.target), prefix, suffix, "",
                  [num |-> 0, den |-> 1])

RECURSIVE NameEach(_, _, _, _, _)
\* the loop of BAC_OT_NameMapping.execute over sel; get_owner_armature() /
\* get_target_armature() of an unset armature is None and the access raises
NameEach(w, sel, prefix, suffix, use_hierarchy) ==
    IF sel = <<>> \/ w.owner = None THEN w
    ELSE IF w.ms[Head(sel)+1].owner \notin PoseBones(w.owner)
    THEN NameEach(w, Tail(sel), prefix, suffix, use_hierarchy)
    ELSE IF w.target = None THEN w
    ELSE IF best_match(w, Head(sel), prefix, suffix, use_hierarchy) # ""
    THEN NameEach(set_target(w, Head(sel) + 1,
                             best_match(w, Head(sel), prefix, suffix, use_hierarchy)),
                  Tail(sel), prefix, suffix, use_hierarchy)
    ELSE NameEach(w, Tail(sel), prefix, suffix, use_hierarchy)

\* BAC_OT_NameMapping.execute
name_mapping(w, prefix, suffix, use_hierarchy) ==
    NameEach(w, get_selection(w), prefix, suffix, use_hierarchy)

\* the first loop of Bake: every constraint without the tag is disabled
DisableForeign(c) ==
    [b \in OwnerBones |->
        [k \in 1..Len(c[b]) |->
            IF c[b][k].tag THEN c[b][k] ELSE [c[b][k] EXCEPT !.enabled = FALSE]]]

\* the last loop of Bake: every snapshotted constraint gets its recorded flag back; snap
\* is the flags before the bake, by name (the tagged constraints come and go in between)
RestoreForeign(c, snap) ==
    [b \in OwnerBones |->
        [k \in 1..Len(c[b]) |->
            IF ~c[b][k].tag /\ c[b][k].name \in DOMAIN snap[b]
            THEN [c[b][k] EXCEPT !.enabled = snap[b][c[b][k].name]]
            ELSE c[b][k]]]

\* prev_enabled of every constraint without the tag, by owner bone and constraint name
Snapshot(c) ==
    [b \in OwnerBones |->
        [n \in {c[b][j].name : j \in {i \in 1..Len(c[b]) : ~c[b][i].tag}} |->
            c[b][IndexOf(c[b], n)].enabled]]

\* the host before the tool ran: pose mode, the owner not the one selected object, the
\* owner animated by an action of the user's, bpy.ops.nla.bake not yet called, no bone
\* selected or active, no constraint type refused on any bone
HostStart ==
    [mode |-> "POSE", solo |-> FALSE, action |-> "Walk", fake |-> FALSE, bakes |-> 0,
     sync_select |-> sync_select,
     select |-> [obj \in Armatures |-> {}],
     active |-> [obj \in Armatures |-> ""],
     rejects |-> [b \in OwnerBones |-> {}]]

\* the set-up of Bake: object mode, the owner the one selected and active object
bake_setup(w) == [w EXCEPT !.host.mode = "OBJECT", !.host.solo = TRUE]

\* the state in which Bake calls bpy.ops.nla.bake: after the set-up, the first loop and
\* state.preview = True
bake_call(w) ==
    set_preview([bake_setup(w) EXCEPT !.cons = DisableForeign(w.cons)], TRUE)

\* bpy.ops.nla.bake(**bake_args) is called
bake_invoke(w) == [w EXCEPT !.host.bakes = @ + 1]

\* the last block of Bake: an action the owner has is renamed and kept
bake_rename(w) ==
    IF w.host.action # ""
    THEN [w EXCEPT !.host.action = "T_baked", !.host.fake = TRUE]
    ELSE w

\* the part of Bake after the finally block: the restore loop and the renaming, which
\* an exception that is not a RuntimeError never reaches
bake_end(w, snap, outcome) ==
    IF outcome = "Exception" THEN w
    ELSE bake_rename([w EXCEPT !.cons = RestoreForeign(w.cons, snap)])

\* mutant: the check for the target's action is left out
bake_runs_without_action(w, has_action) == w.target # None

\* Bake runs past its two precondition checks
bake_runs(w, has_action) == w.target # None /\ has_action

\* BAC_OT_Bake.execute.  has_action: the target has an active action; outcome: what
\* bpy.ops.nla.bake does: "ok", "RuntimeError" (caught), "Exception" (any other
\* exception: the finally block runs, then it leaves the operator)
bake(w, has_action, outcome) ==
    IF ~bake_runs(w, has_action) THEN w
    ELSE bake_end(set_preview(bake_invoke(bake_call(w)), FALSE), Snapshot(w.cons),
                  outcome)

----------------------------------------------------------------------------
(* The state machine: one action per operator or property write of the UI *)

\* the state the handlers run in
W == [ms |-> mappings, cons |-> cons, owner |-> owner, target |-> target,
      active |-> active_mapping, count |-> selected_count, preview |-> preview,
      host |-> host]

\* a session goes on while the user has steps left
InSession == steps < MaxSteps

\* the state a handler leaves, l naming the handler that ran
Commit(w, l) ==
    /\ steps' = steps + 1
    /\ Len(w.ms) <= MaxMappings
    /\ mappings' = w.ms
    /\ cons' = w.cons
    /\ owner' = w.owner
    /\ target' = w.target
    /\ active_mapping' = w.active
    /\ selected_count' = w.count
    /\ preview' = w.preview
    /\ host' = w.host
    /\ last' = l
    /\ UNCHANGED cb_vars

\* rotation offsets a user types into the offset field
OffsetChoices == {0, QuarterTurn}

\* the constraints without the tag, per owner bone, as they are
Foreign(c) == [b \in OwnerBones |-> Untagged(c[b])]

\* what a handler leaves in last when it ends with _apply of mapping k (0: of every one)
Synced(k) == [op |-> "sync", k |-> k, pre |-> Foreign(cons)]

Init ==
    /\ mappings = <<>>
    /\ cons = UserStacks
    /\ owner = None
    /\ target = None
    /\ active_mapping = -1
    /\ selected_count = 0
    /\ preview = TRUE
    /\ host = HostStart
    /\ last = [op |-> "init"]
    /\ steps = 0
    /\ cb_stack = <<>>
    /\ cb_flags = [e \in Entities |-> FALSE]
    /\ cb_calls = 0
    /\ cb_cfg = CbIdle

\* the user picks the target armature (selected_target, update_target)
SelectTarget ==
    /\ InSession
    /\ \E sel \in TargetChoices : Commit(update_target(W, sel), Synced(0))

\* the user switches the preview (preview, update_preview)
SetPreview ==
    /\ InSession
    /\ \E b \in BOOLEAN : Commit(set_preview(W, b), Synced(0))

\* the user clicks a row of the list (active_mapping, update_active)
SetActive ==
    /\ InSession
    /\ \E i \in 0..(Len(mappings) - 1) :
        Commit(set_active(W, i), [op |-> "other"])

SetOwnerBone ==
    /\ InSession
    /\ \E k \in 1..Len(mappings), name \in BoneNames :
        Commit(set_selected_owner(W, k, name), Synced(k))

\* the record of a write of mapping k's target bone: also what the mapping held before
TargetSynced(k, name) ==
    [op |-> "sync", k |-> k, pre |-> Foreign(cons),
     was |-> [offset |-> mappings[k].offset, has_rotoffs |-> mappings[k].has_rotoffs,
              target |-> mappings[k].target, name |-> name]]

SetTargetBone ==
    /\ InSession
    /\ \E k \in 1..Len(mappings), name \in BoneNames :
        Commit(set_target(W, k, name), TargetSynced(k, name))

SetRotOffs ==
    /\ InSession
    /\ \E k \in 1..Len(mappings), b \in BOOLEAN :
        Commit(set_has_rotoffs(W, k, b), Synced(k))

SetLocCopy ==
    /\ InSession
    /\ \E k \in 1..Len(mappings), b \in BOOLEAN :
        Commit(set_has_loccopy(W, k, b), Synced(k))

SetIK ==
    /\ InSession
    /\ \E k \in 1..Len(mappings), b \in BOOLEAN :
        Commit(set_has_ik(W, k, b), Synced(k))

SetOffset ==
    /\ InSession
    /\ \E k \in 1..Len(mappings), v \in OffsetChoices :
        Commit(set_offset(W, k, v), Synced(k))

SetSelected ==
    /\ InSession
    /\ \E k \in 1..Len(mappings), b \in BOOLEAN :
        Commit(set_selected(W, k, b), [op |-> "select"])

SelectAction ==
    /\ InSession
    /\ \E action \in {"ALL", "INVERSE", "NONE"} :
        Commit(select_action(W, action), [op |-> "select"])

ListAdd ==
    /\ InSession
    /\ Commit(add_mapping(W, "", "", -1).w, [op |-> "add", hit |-> FALSE])

\* sel: the bones of the owner armature that are selected in the host
ListAddSelect ==
    /\ InSession
    /\ \E sel \in SUBSET OwnerBones :
        Commit(list_add_select(W, sel),
               [op |-> "add",
                hit |-> owner # None
                        /\ \E n \in sel : get_mapping_by_owner(W, n) # -1])

\* oa, ta: the active bones of the two armatures in the host
ListAddActive ==
    /\ InSession
    /\ \E oa \in OwnerBones \cup {""}, ta \in TargetBones \cup {""} :
        Commit(list_add_active(W, oa, ta),
               [op |-> "add",
                hit |-> owner # None /\ get_mapping_by_owner(W, oa) # -1])

\* the number of tagged constraints in the stacks c
TaggedCount(c) ==
    Cardinality({<<b, k>> \in OwnerBones \X (1..8) : k <= Len(c[b]) /\ c[b][k].tag})

ListRemove ==
    /\ InSession
    /\ Commit(remove_mapping(W),
              [op |-> "ListRemove",
               released |-> TaggedCount(cons) - TaggedCount(remove_mapping(W).cons)])

ListUp ==
    /\ InSession
    /\ Commit(list_up(W), [op |-> "other"])

ListDown ==
    /\ InSession
    /\ Commit(list_down(W), [op |-> "other"])

ChildMapping ==
    /\ InSession
    /\ Commit(child_mapping(W), [op |-> "propagate"])

MirrorMapping ==
    /\ InSession
    /\ Commit(mirror_mapping(W), [op |-> "propagate"])

\* the prefix and the suffix the user types into the operator's fields
FixChoices == {"", "R"}

NameMapping ==
    /\ InSession
    /\ \E prefix \in FixChoices, suffix \in FixChoices, use_hierarchy \in BOOLEAN :
        Commit(name_mapping(W, prefix, suffix, use_hierarchy), [op |-> "name"])

\* what the host does in a run of Bake: the target has no action ("no action": the
\* bake capability is never called), or what bpy.ops.nla.bake does
BakeOutcomes == {"no action", "ok", "RuntimeError", "Exception"}

Bake ==
    /\ InSession
    /\ \E outcome \in BakeOutcomes :
        Commit(bake(W, outcome # "no action", outcome),
               [op |-> "Bake", ran |-> bake_runs(W, outcome # "no action"),
                res |-> outcome, pre_preview |-> preview,
                pre_foreign |-> Snapshot(cons),
                pre_action |-> [name |-> host.action, fake |-> host.fake]])

Next ==
    \/ SelectTarget
    \/ SetPreview
    \/ SetActive
    \/ SetOwnerBone
    \/ SetTargetBone
    \/ SetRotOffs
    \/ SetLocCopy
    \/ SetIK
    \/ SetOffset
    \/ SetSelected
    \/ SelectAction
    \/ ListAdd
    \/ ListAddSelect
    \/ ListAddActive
    \/ ListRemove
    \/ ListUp
    \/ ListDown
    \/ ChildMapping
    \/ MirrorMapping
    \/ NameMapping
    \/ Bake

Spec == Init /\ [][Next]_vars

----------------------------------------------------------------------------
(* The dispatch of the update callbacks.  A write of a property calls the   *)
(* property's update callback; a callback body writes further properties   *)
(* or calls further callbacks.  A frame is [fn, self, via, pc, holds]: the  *)
(* callback, the entity it runs on (0: the BAC_State, k: mapping k), how it *)
(* was reached (by the write of a property or by a direct call), the        *)
(* position in its body (0: not yet entered, -1: an exception of a callee   *)
(* is passing through) and whether it set the entity's is_updating flag.    *)

\* a call of callback fn on entity e, by the write of a property or directly
Call(fn, e, via) == [fn |-> fn, self |-> e, via |-> via]

\* the callbacks wrapped by @guard("is_updating")
Guarded ==
    {"_on_owner", "_on_target", "update_target", "update_preview", "update_active",
     "update_select"}

\* the update callback of each property, by the entity kind the property is on
Fields ==
    {[field |-> "selected_owner", fn |-> "_on_owner", on |-> "mapping"],
     [field |-> "target", fn |-> "_on_target", on |-> "mapping"],
     [field |-> "has_rotoffs", fn |-> "_apply", on |-> "mapping"],
     [field |-> "has_loccopy", fn |-> "_apply", on |-> "mapping"],
     [field |-> "has_ik", fn |-> "_apply", on |-> "mapping"],
     [field |-> "offset", fn |-> "_apply", on |-> "mapping"],
     [field |-> "loc_axis", fn |-> "_apply", on |-> "mapping"],
     [field |-> "ik_influence", fn |-> "_apply", on |-> "mapping"],
     [field |-> "selected", fn |-> "_on_selected", on |-> "mapping"],
     [field |-> "selected_target", fn |-> "update_target", on |-> "state"],
     [field |-> "active_mapping", fn |-> "update_active", on |-> "state"],
     [field |-> "selected_count", fn |-> "update_select", on |-> "state"],
     [field |-> "preview", fn |-> "update_preview", on |-> "state"]}

\* mutant: _apply writes the offset back, whose update callback is _apply
Body_apply_writes_offset(fn, e, cfg) ==
    IF fn = "_apply" THEN << Call("_apply", e, "write") >>
    ELSE IF fn = "_on_owner" THEN << Call("_apply", e, "call") >>
    ELSE IF fn = "_on_target" THEN << Call("_apply", e, "call") >>
    ELSE <<>>

\* the callbacks a body calls, in order: by a property it writes or directly.  cfg.n is
\* the number of mappings, cfg.stores whether _on_target arrives at a non-zero offset,
\* cfg.sync the setting sync_select
Body(fn, e, cfg) ==
    IF fn = "_on_owner" THEN << Call("_apply", e, "call") >>
    ELSE IF fn = "_on_target" THEN
        IF cfg.stores
        THEN << Call("_apply", e, "write"), Call("_apply", e, "write"),
                Call("_apply", e, "call") >>
        ELSE << Call("_apply", e, "call") >>
    ELSE IF fn = "_on_selected" THEN << Call("update_select", 0, "write") >>
    ELSE IF fn = "update_active" THEN
        IF cfg.sync THEN << Call("update_select", 0, "call") >> ELSE <<>>
    ELSE IF fn \in {"update_preview", "update_target"} THEN
        [k \in 1..cfg.n |-> Call("_apply", k, "call")]
    ELSE <<>>

\* the frame on top of the stack
Top == cb_stack[Len(cb_stack)]

\* the stack without its top frame
Popped == SubSeq(cb_stack, 1, Len(cb_stack) - 1)

\* the stack with its top frame replaced by f
Retop(f) == [cb_stack EXCEPT ![Len(cb_stack)] = f]

\* the configurations: the number of mappings, the two conditions the bodies branch on,
\* and whether a callback reached by a write gets the object the flag was set on (the
\* host hands such a callback a wrapper of the property group, the same one or a fresh
\* one; a direct call passes self)
Configs ==
    [n : 0..MaxMappings, stores : BOOLEAN, sync : BOOLEAN, shared : BOOLEAN,
     root : {""}, raised : {FALSE}]

\* getattr(self, "is_updating", False) of the wrapper of a guarded callback is true
FlagSeen(f) ==
    /\ f.fn \in Guarded
    /\ cb_flags[f.self]
    /\ f.via = "call" \/ cb_cfg.shared

\* mutant: the wrapper clears the flag after the body returned, not in a finally
exit_flags_no_finally(flags, f, raised) ==
    IF f.holds /\ ~raised THEN [flags EXCEPT ![f.self] = FALSE] ELSE flags

\* the flags after frame f is left, by return or by an exception: the finally of guard
exit_flags(flags, f, raised) ==
    IF f.holds THEN [flags EXCEPT ![f.self] = FALSE] ELSE flags

\* the stack below frame f after an exception left f: a direct caller gets the
\* exception, the host prints and drops the exception of an update callback
Unwound(f) ==
    IF f.via = "call" /\ Popped # <<>>
    THEN [Popped EXCEPT ![Len(Popped)].pc = -1]
    ELSE Popped

\* the user or an operator writes a property while no callback runs
CbWrite ==
    /\ cb_stack = <<>>
    /\ \E f \in Fields, c \in Configs :
        /\ f.on = "mapping" => c.n >= 1
        /\ cb_cfg' = [c EXCEPT !.root = f.fn]
        /\ cb_stack' = << [fn |-> f.fn, self |-> IF f.on = "mapping" THEN 1 ELSE 0,
                            via |-> "write", pc |-> 0, holds |-> FALSE] >>
    /\ cb_calls' = 0
    /\ cb_flags' = [e \in Entities |-> FALSE]
    /\ UNCHANGED data_vars

\* the wrapper of guard finds the flag set and returns None
CbSkip ==
    /\ cb_stack # <<>>
    /\ Top.pc = 0
    /\ FlagSeen(Top)
    /\ cb_calls' = cb_calls + 1
    /\ cb_stack' = Popped
    /\ UNCHANGED <<cb_flags, cb_cfg>>
    /\ UNCHANGED data_vars

\* a callback is entered; a guarded one sets the flag
CbEnter ==
    /\ cb_stack # <<>>
    /\ Top.pc = 0
    /\ ~FlagSeen(Top)
    /\ cb_calls' = cb_calls + 1
    /\ cb_stack' = Retop([Top EXCEPT !.pc = 1, !.holds = Top.fn \in Guarded])
    /\ cb_flags' = IF Top.fn \in Guarded THEN [cb_flags EXCEPT ![Top.self] = TRUE]
                    ELSE cb_flags
    /\ UNCHANGED cb_cfg
    /\ UNCHANGED data_vars

\* the body calls its next callback
CbCall ==
    /\ cb_stack # <<>>
    /\ Top.pc >= 1
    /\ Top.pc <= Len(Body(Top.fn, Top.self, cb_cfg))
    /\ cb_stack' = Append(Retop([Top EXCEPT !.pc = @ + 1]),
                           [fn |-> Body(Top.fn, Top.self, cb_cfg)[Top.pc].fn,
                            self |-> Body(Top.fn, Top.self, cb_cfg)[Top.pc].self,
                            via |-> Body(Top.fn, Top.self, cb_cfg)[Top.pc].via,
                            pc |-> 0, holds |-> FALSE])
    /\ UNCHANGED <<cb_flags, cb_calls, cb_cfg>>
    /\ UNCHANGED data_vars

\* the body is through; the finally of guard clears the flag
CbReturn ==
    /\ cb_stack # <<>>
    /\ Top.pc > Len(Body(Top.fn, Top.self, cb_cfg))
    /\ cb_stack' = Popped
    /\ cb_flags' = exit_flags(cb_flags, Top, FALSE)
    /\ UNCHANGED <<cb_calls, cb_cfg>>
    /\ UNCHANGED data_vars

\* the body raises at its current position; the finally of guard clears the flag
CbRaise ==
    /\ cb_stack # <<>>
    /\ Top.pc >= 1
    /\ cb_stack' = Unwound(Top)
    /\ cb_flags' = exit_flags(cb_flags, Top, TRUE)
    /\ cb_cfg' = [cb_cfg EXCEPT !.raised = TRUE]
    /\ UNCHANGED cb_calls
    /\ UNCHANGED data_vars

\* the exception of a direct callee leaves the caller; the finally of guard clears the flag
CbUnwind ==
    /\ cb_stack # <<>>
    /\ Top.pc = -1
    /\ cb_stack' = Unwound(Top)
    /\ cb_flags' = exit_flags(cb_flags, Top, TRUE)
    /\ UNCHANGED <<cb_calls, cb_cfg>>
    /\ UNCHANGED data_vars

\* a running callback chain goes on
CbStep == CbSkip \/ CbEnter \/ CbCall \/ CbReturn \/ CbUnwind

NextCallbacks == CbWrite \/ CbSkip \/ CbEnter \/ CbCall \/ CbReturn \/ CbRaise \/ CbUnwind

\* the host runs a callback chain to its end before it handles the next event
SpecCallbacks == Init /\ [][NextCallbacks]_vars /\ WF_vars(CbStep)

----------------------------------------------------------------------------
(* The list operators on longer lists: the session starts from a list the   *)
(* user has built with ADD and ADD_SELECT and clicked a selection into;     *)
(* the rows have no target bone yet, so no bone carries a tool constraint.  *)

\* a row added for owner bone own (add_mapping(own, '')), selected or not
Row(own, sel) == [NewMapping EXCEPT !.selected_owner = own, !.owner = own, !.selected = sel]

\* the lists of up to MaxRows rows with distinct owners
RowLists ==
    UNION {{q \in [1..n -> {Row(b, x) : b \in BoneNames, x \in BOOLEAN}] :
                \A i, j \in 1..n : q[i].owner = q[j].owner => i = j} : n \in 0..MaxRows}

InitRows ==
    /\ mappings \in RowLists
    /\ selected_count = CountSelected(mappings)
    /\ active_mapping \in -1..Len(mappings) - 1
    /\ cons = UserStacks
    /\ owner = SceneOwner
    /\ target = None
    /\ preview = TRUE
    /\ host = HostStart
    /\ last = [op |-> "init"]
    /\ steps = 0
    /\ cb_stack = <<>>
    /\ cb_flags = [e \in Entities |-> FALSE]
    /\ cb_calls = 0
    /\ cb_cfg = CbIdle

\* the list, the active index and the counter after an operator; the rest stays
CommitRows(w, l) ==
    /\ mappings' = w.ms
    /\ active_mapping' = w.active
    /\ selected_count' = w.count
    /\ cons' = w.cons
    /\ last' = l
    /\ UNCHANGED <<owner, target, preview, host, steps>>
    /\ UNCHANGED cb_vars

\* ListAction UP
RowsUp ==
    /\ Len(mappings) <= MaxRows
    /\ CommitRows(list_up(W), [op |-> "UP", ms |-> mappings])

\* ListAction DOWN
RowsDown ==
    /\ Len(mappings) <= MaxRows
    /\ CommitRows(list_down(W), [op |-> "DOWN", ms |-> mappings])

\* a click on a row's selection box
RowsClick ==
    \E k \in 1..Len(mappings) :
        CommitRows(set_selected(W, k, ~mappings[k].selected), [op |-> "click"])

\* ListAction ADD: add_mapping('', '')
RowsAdd ==
    /\ Len(mappings) < MaxRows
    /\ CommitRows(add_mapping(W, "", "", -1).w,
                  [op |-> "ADD", ms |-> mappings, active |-> active_mapping])

NextRows == RowsUp \/ RowsDown \/ RowsClick \/ RowsAdd

SpecRows == InitRows /\ [][NextRows]_vars


----------------------------------------------------------------------------
(* The automatic offset on all three axes: one mapping of the owner bone L, *)
(* both armatures set, the two armatures posed so that the host computes    *)
(* the Euler last.raw; the user picks and clears the mapping's target bone. *)

\* a half turn (pi), the largest angle to_euler() returns
HalfTurn == 2 * QuarterTurn

\* the Eulers the host computes, per axis in -pi..pi
RawEulers == [1..3 -> -HalfTurn..HalfTurn]

InitSnap ==
    /\ mappings = << [Row("L", FALSE) EXCEPT !.offset = <<0, 0, 0>>] >>
    /\ selected_count = 0
    /\ active_mapping = 0
    /\ cons = UserStacks
    /\ owner = SceneOwner
    /\ target = "T"
    /\ preview = TRUE
    /\ host = HostStart
    /\ \E e \in RawEulers : last = [op |-> "pose", raw |-> e]
    /\ steps = 0
    /\ cb_stack = <<>>
    /\ cb_flags = [e \in Entities |-> FALSE]
    /\ cb_calls = 0
    /\ cb_cfg = CbIdle

\* the user picks the target bone tb; the host computes the Euler of the pose
SnapTarget ==
    /\ target # None
    /\ \E tb \in PoseBones(target) :
        CommitRows(on_target_euler([W EXCEPT !.ms[1].target = tb], 1, last.raw),
                   [op |-> "target", raw |-> last.raw])

\* the user clears the target bone field: the mapping is invalid, nothing is computed
SnapClear ==
    /\ mappings[1].target # ""
    /\ CommitRows(on_target_euler([W EXCEPT !.ms[1].target = ""], 1, last.raw),
                  [op |-> "clear", raw |-> last.raw])

NextSnap == SnapTarget \/ SnapClear

SpecSnap == InitSnap /\ [][NextSnap]_vars

----------------------------------------------------------------------------
(* Bone selection: the sessions with both armatures set in which the user   *)
(* has built a list of mappings, selected bones in the viewport and may     *)
(* have switched sync_select on.  The target armature is the one of the     *)
(* picker, or the owner armature itself, which a script can assign.         *)

\* a mapping of owner bone own to target bone tgt, selected or not
Pair(own, tgt, sel) == [Row(own, sel) EXCEPT !.target = tgt]

\* the lists of up to MaxMappings mappings with distinct owners
PairLists ==
    UNION {{q \in [1..n -> {Pair(b, t, x) : b \in BoneNames, t \in BoneNames,
                                            x \in BOOLEAN}] :
                \A i, j \in 1..n : q[i].owner = q[j].owner => i = j} : n \in 0..MaxMappings}

\* the bones selected in the viewport: none, or every bone of both armatures
ViewportSelections == {[obj \in Armatures |-> {}], [obj \in Armatures |-> PoseBones(obj)]}

\* the session's start with list ms, target armature tgt, the setting sync and the
\* viewport selection sel: the constraints are those _apply has made of the list
SelectStart(ms, tgt, sync, sel) ==
    ApplyFrom([ms |-> ms, cons |-> UserStacks, owner |-> SceneOwner, target |-> tgt,
               active |-> -1, count |-> CountSelected(ms), preview |-> TRUE,
               host |-> [HostStart EXCEPT !.sync_select = sync, !.select = sel]], 1)

InitSelect ==
    /\ \E ms \in PairLists, tgt \in Armatures, sync \in BOOLEAN, sel \in ViewportSelections :
        /\ mappings = ms
        /\ target = tgt
        /\ cons = SelectStart(ms, tgt, sync, sel).cons
        /\ host = SelectStart(ms, tgt, sync, sel).host
    /\ selected_count = CountSelected(mappings)
    /\ active_mapping = -1
    /\ owner = SceneOwner
    /\ preview = TRUE
    /\ last = [op |-> "init"]
    /\ steps = 0
    /\ cb_stack = <<>>
    /\ cb_flags = [e \in Entities |-> FALSE]
    /\ cb_calls = 0
    /\ cb_cfg = CbIdle

\* the state an operator leaves in such a session; the armatures and preview stay
CommitSelect(w, l) ==
    /\ Len(w.ms) <= MaxMappings
    /\ mappings' = w.ms
    /\ active_mapping' = w.active
    /\ selected_count' = w.count
    /\ cons' = w.cons
    /\ host' = w.host
    /\ last' = l
    /\ UNCHANGED <<owner, target, preview, steps>>
    /\ UNCHANGED cb_vars

\* what an operator leaves in last: its name, the counter it started from, and the bones
\* selected and active in the host when it started
Started(op) ==
    [op |-> op, count |-> selected_count, select |-> host.select, active |-> host.active]

\* a click on a row's selection box
SelectClick ==
    /\ mappings # <<>>
    /\ \E k \in 1..Len(mappings) :
        CommitSelect(set_selected(W, k, ~mappings[k].selected), Started("click"))

\* BAC_OT_SelectAction
SelectAll ==
    /\ Len(mappings) <= MaxRows
    /\ \E action \in {"ALL", "INVERSE", "NONE"} :
        CommitSelect(select_action(W, action), Started("select"))

\* a click on a row: active_mapping is written
SelectActive ==
    /\ mappings # <<>>
    /\ \E v \in 0..Len(mappings) - 1 :
        CommitSelect(set_active(W, v), Started("active"))

\* ListAction REMOVE
SelectRemove ==
    /\ mappings # <<>>
    /\ CommitSelect(remove_mapping(W), Started("remove"))

\* BAC_OT_ChildMapping
SelectChild ==
    /\ mappings # <<>>
    /\ CommitSelect(child_mapping(W), Started("child"))

\* BAC_OT_MirrorMapping
SelectMirror ==
    /\ mappings # <<>>
    /\ CommitSelect(mirror_mapping(W), Started("mirror"))

NextSelect ==
    SelectClick \/ SelectAll \/ SelectActive \/ SelectRemove \/ SelectChild \/ SelectMirror

SpecSelect == InitSelect /\ [][NextSelect]_vars

----------------------------------------------------------------------------
(* Name matching: the sessions in which the user has built a list of        *)
(* mappings, has picked the standard target or one of the rigs, and runs    *)
(* BAC_OT_NameMapping with a prefix and a suffix typed into its fields.     *)

\* the targets the mappings have before the operator runs: none, or the bone "RR"
EarlierTargets == {"", "RR"}

\* the lists of up to MaxMappings mappings with distinct owners and such targets
NameLists ==
    UNION {{q \in [1..n -> {Pair(b, t, x) : b \in BoneNames, t \in EarlierTargets,
                                            x \in BOOLEAN}] :
                \A i, j \in 1..n : q[i].owner = q[j].owner => i = j} : n \in 0..MaxMappings}

\* what the user types into the prefix and the suffix field
NameFixes == {"", "L", "R"}

InitNames ==
    /\ \E ms \in NameLists, tgt \in Rigs \cup {"T"} :
        /\ mappings = ms
        /\ target = tgt
        /\ cons = SelectStart(ms, tgt, sync_select, HostStart.select).cons
    /\ host = HostStart
    /\ selected_count = CountSelected(mappings)
    /\ active_mapping \in -1..Len(mappings) - 1
    /\ owner = SceneOwner
    /\ preview = TRUE
    /\ last = [op |-> "init"]
    /\ steps = 0
    /\ cb_stack = <<>>
    /\ cb_flags = [e \in Entities |-> FALSE]
    /\ cb_calls = 0
    /\ cb_cfg = CbIdle

\* the state the operator leaves; the armatures, preview and the host data stay
CommitNames(w, l) ==
    /\ mappings' = w.ms
    /\ active_mapping' = w.active
    /\ selected_count' = w.count
    /\ cons' = w.cons
    /\ last' = l
    /\ UNCHANGED <<owner, target, preview, host>>
    /\ UNCHANGED cb_vars

\* BAC_OT_NameMapping with the fields filled in; last keeps the fields and the list,
\* the counter and the active index the operator started from
NamesMatch ==
    /\ steps < MaxMatches
    /\ steps' = steps + 1
    /\ \E prefix \in NameFixes, suffix \in NameFixes, use_hierarchy \in BOOLEAN :
        CommitNames(name_mapping(W, prefix, suffix, use_hierarchy),
                    [op |-> "match", prefix |-> prefix, suffix |-> suffix,
                     use_hierarchy |-> use_hierarchy, ms |-> mappings,
                     count |-> selected_count, active |-> active_mapping])

NextNames == NamesMatch

SpecNames == InitNames /\ [][NextNames]_vars

----------------------------------------------------------------------------
(* Refused constraints: the sessions in which the host refuses to create    *)
(* constraints (constraints.new raises RuntimeError): one type on one bone, *)
(* or every type on one bone.  The user has built the list and set the      *)
(* toggles before picking the target armature, so no tool constraint        *)
(* exists yet.                                                              *)

\* the constraint types the tool creates
ToolTypes == {"COPY_ROTATION", "TRANSFORM", "COPY_LOCATION", "IK"}

\* what the host refuses: nothing, one type on one bone, or every type on one bone
Refusals ==
    {[b \in OwnerBones |-> {}]}
    \cup {[b \in OwnerBones |-> IF b = rb THEN {t} ELSE {}] : rb \in OwnerBones, t \in ToolTypes}
    \cup {[b \in OwnerBones |-> IF b = rb THEN ToolTypes ELSE {}] : rb \in OwnerBones}

\* a mapping of owner bone own to target bone tgt with the three toggles set
Toggled(own, tgt, r, l, k) ==
    [Pair(own, tgt, FALSE) EXCEPT !.has_rotoffs = r, !.has_loccopy = l, !.has_ik = k]

\* the lists of up to MaxMappings such mappings with distinct owners
ToggledLists ==
    UNION {{q \in [1..n -> {Toggled(b, t, r, l, k) : b \in OwnerBones, t \in {"", "L"},
                                                     r \in BOOLEAN, l \in BOOLEAN,
                                                     k \in BOOLEAN}] :
                \A i, j \in 1..n : q[i].owner = q[j].owner => i = j} : n \in 0..MaxMappings}

InitReject ==
    /\ mappings \in ToggledLists
    /\ \E r \in Refusals : host = [HostStart EXCEPT !.rejects = r]
    /\ cons = UserStacks
    /\ selected_count = 0
    /\ active_mapping = Len(mappings) - 1
    /\ owner = None
    /\ target = None
    /\ preview = TRUE
    /\ last = [op |-> "init"]
    /\ steps = 0
    /\ cb_stack = <<>>
    /\ cb_flags = [e \in Entities |-> FALSE]
    /\ cb_calls = 0
    /\ cb_cfg = CbIdle

\* the state a batch callback leaves; the list and the host data stay
CommitReject(w, l) ==
    /\ cons' = w.cons
    /\ owner' = w.owner
    /\ target' = w.target
    /\ preview' = w.preview
    /\ last' = l
    /\ UNCHANGED <<mappings, active_mapping, selected_count, host, steps>>
    /\ UNCHANGED cb_vars

\* the user picks or clears the target armature (selected_target, update_target)
RejectTarget ==
    /\ Len(mappings) <= MaxMappings
    /\ \E sel \in TargetChoices \ {target} :
        CommitReject(update_target(W, sel), [op |-> "target"])

\* the user flips the preview switch (preview, update_preview)
RejectPreview ==
    /\ Len(mappings) <= MaxMappings
    /\ CommitReject(set_preview(W, ~preview), [op |-> "preview"])

NextReject == RejectTarget \/ RejectPreview

SpecReject == InitReject /\ [][NextReject]_vars

----------------------------------------------------------------------------
(* The prototype of data.py: BAC_BoneMapping.apply(owner, target,           *)
(* constraint_type) constrains the pose bone of the TARGET armature that    *)
(* the mapping's target field names.  Constraint names are sequences of     *)
(* characters; cons holds the stacks of the pose bones of the armature "T". *)
(* mappings holds the one prototype mapping, [owner, target].               *)

\* constraint_prefix
BAC_Prefix == <<"B", "A", "C", "_">>

\* c.name.startswith(constraint_prefix), on sequences of characters
name_startswith(name, prefix) ==
    /\ Len(prefix) <= Len(name)
    /\ SubSeq(name, 1, Len(prefix)) = prefix

\* a constraint of the prototype
ProtoCon(name, ctype, tgt, sub, mix) ==
    [name |-> name, ctype |-> ctype, target |-> tgt, subtarget |-> sub, mix_mode |-> mix]

\* constraints the user authored, by their names: "Limit", "BAC", "bac_x", "BAC_old",
\* "BAC_L"
UserLimit == ProtoCon(<<"L", "i", "m", "i", "t">>, "LIMIT_ROTATION", None, "", "")

UserBAC == ProtoCon(<<"B", "A", "C">>, "COPY_ROTATION", None, "", "REPLACE")

UserLower == ProtoCon(<<"b", "a", "c", "_", "x">>, "COPY_LOCATION", None, "", "")

UserOld == ProtoCon(BAC_Prefix \o <<"o", "l", "d">>, "COPY_ROTATION", None, "", "REPLACE")

UserSame == ProtoCon(BAC_Prefix \o <<"L">>, "COPY_SCALE", None, "", "")

\* the stacks a pose bone starts with
ProtoStacks ==
    { <<>>, <<UserLimit>>, <<UserBAC, UserLower>>, <<UserOld, UserLimit>>,
      <<UserOld, UserLimit, UserSame>>, <<UserSame, UserBAC, UserOld>> }

\* the objects apply can be handed: the two armatures, a mesh, None
ProtoObjects == {SceneOwner, "T", "Cube", None}

\* BAC_Utils.validate_armature
validate_armature(obj) == obj \in Armatures

\* the constraint types apply is called with: the default, one more with mix_mode, one
\* without mix_mode (the assignment raises AttributeError) and one the host does not
\* know (constraints.new raises TypeError)
ProtoTypes == {"COPY_ROTATION", "COPY_TRANSFORMS", "COPY_LOCATION", "BOGUS"}

\* mutant: nothing is removed
remove_constraints_none(stack, constraint_prefix) == stack

\* BAC_Utils.remove_constraints on a pose bone that exists: every constraint whose name
\* starts with the prefix is removed
remove_constraints(stack, constraint_prefix) ==
    SelectSeq(stack, LAMBDA con : ~name_startswith(con.name, constraint_prefix))

\* the name the host gives when a constraint is renamed: a numbered suffix makes it
\* unique among the names of the stack
unique_name(stack, name) ==
    IF \E i \in 1..Len(stack) : stack[i].name = name
    THEN name \o <<".", Cardinality({i \in 1..Len(stack) :
                                        name_startswith(stack[i].name, name)})>>
    ELSE name

\* the early returns of apply: an empty field, an invalid object, a bone not found
proto_rejects(m, own_obj, tgt_obj) ==
    \/ m.owner = "" \/ m.target = ""
    \/ ~validate_armature(own_obj) \/ ~validate_armature(tgt_obj)
    \/ m.owner \notin PoseBones(own_obj) \/ m.target \notin PoseBones(tgt_obj)

\* the try block of apply on the stack of the target pose bone: the prefixed
\* constraints are removed, then the new one is created, named and set up; an
\* exception on the way ends the call with what has been done so far
proto_try(stack, m, own_obj, ctype) ==
    IF ctype = "BOGUS" THEN remove_constraints(stack, BAC_Prefix)
    ELSE Append(remove_constraints(stack, BAC_Prefix),
                ProtoCon(unique_name(remove_constraints(stack, BAC_Prefix),
                                     BAC_Prefix \o <<m.target>>),
                         ctype, own_obj, m.owner,
                         IF ctype = "COPY_ROTATION" THEN "ADD"
                         ELSE IF ctype = "COPY_TRANSFORMS" THEN "REPLACE" ELSE ""))

\* whether apply returns True
proto_ok(m, own_obj, tgt_obj, ctype) ==
    /\ ~proto_rejects(m, own_obj, tgt_obj)
    /\ ctype \in {"COPY_ROTATION", "COPY_TRANSFORMS"}

\* the stacks of the armature "T" after apply; a call on another armature constrains
\* that armature's bones and leaves these stacks alone
proto_apply(c, m, own_obj, tgt_obj, ctype) ==
    IF proto_rejects(m, own_obj, tgt_obj) \/ tgt_obj # "T" THEN c
    ELSE [c EXCEPT ![m.target] = proto_try(@, m, own_obj, ctype)]

\* the constraints of each bone whose names lack the prefix
Unprefixed(c) ==
    [b \in TargetBones |-> SelectSeq(c[b], LAMBDA con : ~name_startswith(con.name, BAC_Prefix))]

InitProto ==
    /\ mappings \in {<<[owner |-> o, target |-> t]>> : o \in {"", "L"}, t \in BoneNames}
    /\ cons \in [TargetBones -> ProtoStacks]
    /\ selected_count = 0
    /\ active_mapping = 0
    /\ owner = SceneOwner
    /\ target = "T"
    /\ preview = TRUE
    /\ host = HostStart
    /\ last = [op |-> "init", oks |-> 0]
    /\ steps = 0
    /\ cb_stack = <<>>
    /\ cb_flags = [e \in Entities |-> FALSE]
    /\ cb_calls = 0
    /\ cb_cfg = CbIdle

\* a script calls mapping.apply(own_obj, tgt_obj, ctype)
ProtoApply ==
    /\ steps < MaxApplies
    /\ \E own_obj \in ProtoObjects, tgt_obj \in ProtoObjects, ctype \in ProtoTypes :
        /\ cons' = proto_apply(cons, mappings[1], own_obj, tgt_obj, ctype)
        /\ last' = [op |-> "apply", ok |-> proto_ok(mappings[1], own_obj, tgt_obj, ctype),
                    tgt_obj |-> tgt_obj, pre |-> Unprefixed(cons),
                    oks |-> IF proto_ok(mappings[1], own_obj, tgt_obj, ctype)
                            THEN last.oks + 1 ELSE last.oks]
    /\ steps' = steps + 1
    /\ UNCHANGED <<mappings, owner, target, active_mapping, selected_count, preview, host>>
    /\ UNCHANGED cb_vars

\* the user types another bone name into the mapping's target field
ProtoRetarget ==
    /\ steps < MaxApplies
    /\ \E t \in BoneNames \ {mappings[1].target} :
        mappings' = <<[mappings[1] EXCEPT !.target = t]>>
    /\ last' = [op |-> "edit", oks |-> last.oks]
    /\ steps' = steps + 1
    /\ UNCHANGED <<cons, owner, target, active_mapping, selected_count, preview, host>>
    /\ UNCHANGED cb_vars

NextProto == ProtoApply \/ ProtoRetarget

SpecProto == InitProto /\ [][NextProto]_vars

----------------------------------------------------------------------------
(* The claims *)

\* the positions of the mappings whose owner is own
WithOwner(ms, own) == {k \in 1..Len(ms) : ms[k].owner = own}

\* insertion indices add_mapping is called with: -1 (the default) or i + 1, below row i
AddIndices == {-1, 1}

\* C1: add_mapping with a non-empty owner that an existing mapping has does not change
\* the length of the collection: it sets that mapping's target to the given target,
\* makes it the active one and returns its index.
C1_AddExistingUpdatesInPlace ==
    \A own \in BoneNames \ {""}, tgt \in BoneNames, index \in AddIndices :
        WithOwner(mappings, own) # {} =>
            LET r == add_mapping(W, own, tgt, index) IN
            /\ Len(r.w.ms) = Len(mappings)
            /\ \E k \in WithOwner(mappings, own) :
                /\ r.w.ms[k].owner = own
                /\ r.w.ms[k].target = tgt
                /\ r.w.active = k - 1
                /\ r.idx = k - 1

\* C1's case: an add operator ran for an owner that was mapped already, and the mapping
\* it made active has the target it was given
C1_Witness ==
    /\ last.op = "add"
    /\ last.hit
    /\ active_mapping \in 0..(Len(mappings) - 1)
    /\ mappings[active_mapping + 1].owner # ""
    /\ mappings[active_mapping + 1].target # ""

\* C2: no two mappings of the collection have the same ownerBone.  Stated for the names
\* of bones; for the empty name the collection holds two such mappings as soon as ADD
\* ran twice.
C2_UniqueOwners ==
    \A i, j \in 1..Len(mappings) :
        (i # j /\ mappings[i].owner # "") => mappings[i].owner # mappings[j].owner

\* C3: selectedCount equals the number of mappings whose selected flag is true, after
\* every operation.
C3_SelectedCountExact == selected_count = CountSelected(mappings)

\* C3's case: a selection operator left a multi-selection behind
C3_Witness ==
    /\ last.op = "select"
    /\ selected_count = 2
    /\ Len(mappings) = 2

\* the tagged constraints of a stack that are enabled
TaggedEnabled(stack) == {k \in 1..Len(stack) : stack[k].tag /\ stack[k].enabled}

\* C4: when an operation ended with the synchronisation of a mapping and the mapping is
\* not valid, no tagged constraint on its owner bone is enabled.
C4_InvalidMeansDisabled ==
    (last.op = "sync" /\ last.k # 0) =>
        LET m == mappings[last.k]
            b == get_owner_pose_bone(W, m)
        IN  (b # "" /\ ~is_valid(W, m)) => TaggedEnabled(cons[b]) = {}

\* C5: a synchronisation leaves every constraint without the tag as it was, also one
\* whose name is a reserved name.
C5_SyncKeepsForeign ==
    last.op = "sync" => Foreign(cons) = last.pre

\* C6: synchronising a mapping twice in a row leaves the constraint stacks as
\* synchronising it once does.
C6_SyncIdempotent ==
    \A k \in 1..Len(mappings) :
        LET once == [W EXCEPT !.cons = apply(W, mappings[k])]
        IN  apply(once, mappings[k]) = once.cons

\* C6's case: a mapping whose bones resolve has been synchronised, its owner bone
\* carries the rotation copy and the roll and a second synchronisation has work to redo
C6_Witness ==
    /\ last.op = "sync"
    /\ \E k \in 1..Len(mappings) :
        /\ is_valid(W, mappings[k])
        /\ mappings[k].has_rotoffs
        /\ ~mappings[k].has_ik
        /\ apply(W, mappings[k]) = cons
        /\ \E j \in 1..Len(cons[mappings[k].owner]) :
            /\ cons[mappings[k].owner][j].tag
            /\ cons[mappings[k].owner][j].name = BAC_ROT_ROLL

\* the tagged constraints of a stack with their enabled flags: (name, enabled) pairs
TaggedFlags(stack) ==
    {<<stack[k].name, stack[k].enabled>> : k \in {i \in 1..Len(stack) : stack[i].tag}}

\* the state after preview is switched off and on again
RoundTrip(w) == set_preview(set_preview(w, FALSE), TRUE)

\* C7: with the preview on, switching it off and on again leaves, on every mapping's
\* owner bone, every tagged constraint in place with the enabled flag it had before.
C7_PreviewRoundTrip ==
    preview =>
        \A k \in 1..Len(mappings) :
            LET b == get_owner_pose_bone(W, mappings[k]) IN
            b # "" => TaggedFlags(cons[b]) \subseteq TaggedFlags(RoundTrip(W).cons[b])

\* the round trip of C7 in the states where no two mappings share an owner bone
C7_RoundTripUniqueOwners == C2_UniqueOwners => C7_PreviewRoundTrip

\* the owner bones that resolve among the mappings remove_mapping removes
RemovedBones(w) ==
    {get_owner_pose_bone(w, w.ms[get_selection(w)[j] + 1]) :
        j \in 1..Len(get_selection(w))} \ {""}

\* C8: after remove_mapping no tagged constraint is left on the owner bone of a removed
\* mapping, whatever its toggles and whether or not its target resolves.
C8_RemoveReleasesAll ==
    LET post == remove_mapping(W) IN
    /\ Len(post.ms) = Len(mappings) - Len(get_selection(W))
    /\ \A b \in RemovedBones(W) :
        \A j \in 1..Len(post.cons[b]) : ~post.cons[b][j].tag

\* C8's case: a removal took two or more tagged constraints off a bone and none is left
C8_Witness ==
    /\ last.op = "ListRemove"
    /\ last.released >= 2
    /\ TaggedCount(cons) = 0

\* C9: when the bake capability raised, every constraint without the tag has, after
\* Bake, the enabled flag it had before Bake.
C9_BakeFailureRestoresForeign ==
    (last.op = "Bake" /\ last.ran /\ last.res \in {"RuntimeError", "Exception"}) =>
        Snapshot(cons) = last.pre_foreign

\* C10: after Bake, whether the bake capability succeeded or raised, previewEnabled is
\* what it was before Bake.
C10_BakeRestoresPreview ==
    (last.op = "Bake" /\ last.ran) => preview = last.pre_preview

\* C11: Bake with the target armature unset or with a target that has no action changes
\* nothing: mappings, constraints, preview, the host's mode, selection and action are
\* as before, and bpy.ops.nla.bake is not called.
C11_BakeCancelChangesNothing ==
    \A has_action \in BOOLEAN, outcome \in BakeOutcomes :
        (target = None \/ ~has_action) => bake(W, has_action, outcome) = W

\* C11's case: Bake was cancelled in a state with a mapping whose constraints are on
\* the owner bone
C11_Witness ==
    /\ last.op = "Bake"
    /\ ~last.ran
    /\ TaggedCount(cons) > 0
    /\ preview
    /\ host = HostStart

\* every constraint without the tag, on every owner bone, is disabled in the stacks c
ForeignOff(c) ==
    \A b \in OwnerBones : \A j \in 1..Len(c[b]) : c[b][j].tag \/ ~c[b][j].enabled

\* every tagged constraint on the owner bone of a valid mapping is enabled in state w
ToolOn(w) ==
    \A k \in 1..Len(w.ms) :
        is_valid(w, w.ms[k]) =>
            \A j \in 1..Len(w.cons[w.ms[k].owner]) :
                w.cons[w.ms[k].owner][j].tag => w.cons[w.ms[k].owner][j].enabled

\* C12: in the state in which Bake calls bpy.ops.nla.bake every constraint without the
\* tag is disabled, preview is true and every tagged constraint of a valid mapping is
\* enabled.
C12_BakeCallState ==
    target # None =>
        /\ ForeignOff(bake_call(W).cons)
        /\ bake_call(W).preview
        /\ ToolOn(bake_call(W))

\* the tool's part of C12: preview and the tagged constraints at the call
C12_ToolOnAtCall ==
    target # None => (bake_call(W).preview /\ ToolOn(bake_call(W)))
\* the most callback invocations one write can start: the callback of target and its
\* three calls of _apply, or a batch callback and one _apply per mapping
ChainBound(cfg) == Max(1 + 3, 1 + cfg.n)

\* C13: the chain of callbacks one property write starts makes a bounded number of
\* callback invocations and nests no deeper than a callback and its callee, for every
\* property, with or without a non-zero automatic offset.
C13_CallbackChainBounded ==
    /\ cb_calls <= ChainBound(cb_cfg)
    /\ Len(cb_stack) <= 2

\* C13's case: the chain of a target write with a non-zero automatic offset has made
\* its four invocations and has ended
C13_Witness ==
    /\ cb_stack = <<>>
    /\ cb_cfg.stores
    /\ cb_cfg.root = "_on_target"
    /\ ~cb_cfg.raised
    /\ cb_calls = 4

\* every callback chain comes to its end
C13_ChainsEnd == (cb_stack # <<>>) ~> (cb_stack = <<>>)

\* mappings[i] of w is a source of the mirror operator: in the working selection, with
\* both armatures set
MirrorSource(w, i) ==
    /\ w.owner # None /\ w.target # None
    /\ \E p \in 1..Len(get_selection(w)) : get_selection(w)[p] = i

\* in ms, the mapping of owner bone own is unselected
Unselected(ms, own) == \A k \in 1..Len(ms) : ms[k].owner = own => ~ms[k].selected

\* in ms, a selected mapping own -> tgt exists
SelectedPair(ms, own, tgt) ==
    \E k \in 1..Len(ms) : ms[k].owner = own /\ ms[k].target = tgt /\ ms[k].selected

\* in after, the mapping of own sits right below the mapping of src when before has no
\* mapping of own
NewBelow(before, after, src, own) ==
    (\A k \in 1..Len(before) : before[k].owner # own) =>
        \E k \in 1..Len(after) - 1 : after[k].owner = src /\ after[k+1].owner = own

\* C14: after the mirror operator every source mapping is unselected, and a source whose
\* owner and target bone both have a mirrored bone has a selected mapping from the one to
\* the other, right below the source when it is new.
C14_MirrorPropagation ==
    \A i \in 0..Len(mappings) - 1 :
        (C2_UniqueOwners /\ MirrorSource(W, i)) =>
            /\ Unselected(mirror_mapping(W).ms, mappings[i+1].owner)
            /\ mirror_found(W, i) =>
                /\ SelectedPair(mirror_mapping(W).ms, flip_name(mappings[i+1].owner),
                                flip_name(mappings[i+1].target))
                /\ NewBelow(mappings, mirror_mapping(W).ms, mappings[i+1].owner,
                            flip_name(mappings[i+1].owner))

\* C14 for a single source whose mirrored mapping is new
C14_SingleSourceMirrored ==
    \A i \in 0..Len(mappings) - 1 :
        (/\ C2_UniqueOwners /\ MirrorSource(W, i) /\ Len(get_selection(W)) = 1
         /\ mirror_found(W, i)
         /\ \A k \in 1..Len(mappings) : mappings[k].owner # flip_name(mappings[i+1].owner)) =>
            /\ Unselected(mirror_mapping(W).ms, mappings[i+1].owner)
            /\ SelectedPair(mirror_mapping(W).ms, flip_name(mappings[i+1].owner),
                            flip_name(mappings[i+1].target))
            /\ NewBelow(mappings, mirror_mapping(W).ms, mappings[i+1].owner,
                        flip_name(mappings[i+1].owner))
\* the list has three rows, the lower two selected
LowerTwoSelected(ms) ==
    /\ Len(ms) = 3
    /\ ~ms[1].selected /\ ms[2].selected /\ ms[3].selected

\* C15 as stated: UP on a list whose rows 1 and 2 are selected and row 0 is not leaves
\* row 0 in place.
C15_UpKeepsTopRow ==
    LowerTwoSelected(mappings) => list_up(W).ms[1] = mappings[1]

\* C15 amended: UP on a list whose rows 1 and 2 are selected and row 0 is not moves the
\* selected block up by one slot, the unselected row going below it: each of the two
\* moves swaps a selected row with the unselected row right above it.
C15_UpMovesBlock ==
    LowerTwoSelected(mappings) =>
        /\ list_up(W).ms = <<mappings[2], mappings[3], mappings[1]>>
        /\ list_up(W).active = active_mapping
        /\ list_up(W).count = selected_count

\* C15's case: UP has run on such a list
C15_Witness ==
    /\ last.op = "UP"
    /\ LowerTwoSelected(last.ms)
    /\ mappings = <<last.ms[2], last.ms[3], last.ms[1]>>
\* active_mapping of w is -1 or the index of a mapping
ActiveInBounds(w) == w.active = -1 \/ (0 <= w.active /\ w.active < Len(w.ms))

\* C16: after remove_mapping the counter of selected mappings is 0 and the active index
\* is -1 or the index of a remaining mapping, also when no mapping remains.
C16_RemoveKeepsActiveInBounds ==
    /\ remove_mapping(W).count = 0
    /\ ActiveInBounds(remove_mapping(W))

\* C16 without the emptied list: the counter is 0, and the active index is in bounds
\* when a mapping remains
C16_RemoveNonEmptied ==
    /\ remove_mapping(W).count = 0
    /\ (ActiveInBounds(W) /\ remove_mapping(W).ms # <<>>) => ActiveInBounds(remove_mapping(W))
\* q is strictly descending
StrictlyDescending(q) == \A j \in 1..Len(q) - 1 : q[j] > q[j+1]

\* C17: get_selection is the active index alone when no mapping is counted as selected
\* and the active index is in range; otherwise it is the indices of the selected
\* mappings, each once, in strictly descending order (none when none is selected).
C17_GetSelection ==
    IF selected_count = 0 /\ 0 <= active_mapping /\ active_mapping < Len(mappings)
    THEN get_selection(W) = <<active_mapping>>
    ELSE /\ StrictlyDescending(get_selection(W))
         /\ {get_selection(W)[j] : j \in 1..Len(get_selection(W))}
                = {i \in 0..Len(mappings) - 1 : mappings[i+1].selected}

\* C17's case: two of three mappings are selected, the active one is not among them, and
\* an operator has acted on that selection
C17_Witness ==
    /\ Len(mappings) = 3
    /\ Len(get_selection(W)) = 2
    /\ 0 <= active_mapping /\ active_mapping < 3
    /\ ~mappings[active_mapping + 1].selected
    /\ last.op = "UP"
\* the insertion indices add_mapping is given: below the first, the default, in range,
\* beyond the last
InsertIndices == -2..(MaxRows + 1)

\* the index in 0..hi nearest to i
Clamp(i, hi) == Max(0, Min(i, hi))

\* C18: add_mapping for an owner no mapping has makes the collection one longer, puts
\* the new mapping at the given index (by default the index below the active mapping)
\* clamped to the collection, makes it the active one, returns its index, and leaves the
\* earlier mappings as they were and in their order.
C18_AddNewInsertsAtClamped ==
    \A own \in BoneNames, tgt \in BoneNames, index \in InsertIndices :
        WithOwner(mappings, own) = {} =>
            LET r == add_mapping(W, own, tgt, index)
                at == Clamp(IF index = -1 THEN active_mapping + 1 ELSE index, Len(mappings))
            IN  /\ Len(r.w.ms) = Len(mappings) + 1
                /\ r.idx = at
                /\ r.w.active = at
                /\ r.w.ms[at + 1].owner = own
                /\ r.w.ms[at + 1].target = tgt
                /\ RemoveAt(r.w.ms, at + 1) = mappings

\* C18's case: ADD has put a new mapping between two earlier ones
C18_Witness ==
    /\ last.op = "ADD"
    /\ Len(last.ms) = 2
    /\ last.active = 0
    /\ last.ms[1].owner # ""
    /\ mappings = <<last.ms[1], NewMapping, last.ms[2]>>
    /\ active_mapping = 1
\* both armatures are set and every mapping of the working selection names a bone of
\* its armature on either side: no lookup of the child operator raises
ChildSources(w) ==
    /\ get_selection(w) # <<>>
    /\ \A p \in 1..Len(get_selection(w)) : bones_found(w, get_selection(w)[p])

\* the child operator's outcome for source mappings[i]: the source is unselected; with
\* one child on either side the mapping of the children is there, selected, and right
\* below the source when new
ChildOutcome(i) ==
    /\ Unselected(child_mapping(W).ms, mappings[i+1].owner)
    /\ single_children(W, i) =>
        /\ SelectedPair(child_mapping(W).ms, Children(owner, mappings[i+1].owner)[1],
                        Children(target, mappings[i+1].target)[1])
        /\ NewBelow(mappings, child_mapping(W).ms, mappings[i+1].owner,
                    Children(owner, mappings[i+1].owner)[1])

\* C19: after the child operator every source mapping is unselected; a source whose
\* owner bone and target bone have one child each has a selected mapping from the one
\* child to the other, right below the source when it is new.
C19_ChildPropagation ==
    (C2_UniqueOwners /\ ChildSources(W)) =>
        \A p \in 1..Len(get_selection(W)) : ChildOutcome(get_selection(W)[p])

\* C19 for a single source: the outcome above, and nothing but the deselection when a
\* bone has no child or several
C19_SingleSourceChild ==
    (C2_UniqueOwners /\ ChildSources(W) /\ Len(get_selection(W)) = 1) =>
        /\ ChildOutcome(get_selection(W)[1])
        /\ ~single_children(W, get_selection(W)[1]) =>
                child_mapping(W) = deselect(W, get_selection(W)[1])

\* C20: the target armature is never the owner armature: update_target for the armature
\* that is the scene's owner, a value the poll of the picker does not let through,
\* rejects it and leaves the target and all constraints as they were.
C20_UpdateTargetRejectsOwner ==
    /\ target # None => target # owner
    /\ update_target(W, SceneOwner).target = target
    /\ update_target(W, SceneOwner).cons = cons

\* C20 for the picker of the panel, whose poll offers no owner armature: a target that
\* is set differs from the owner, and update_target takes over every armature it is
\* given
C20_PolledTargetDiffers ==
    /\ target # None => target # owner
    /\ \A sel \in Armatures : update_target(W, sel).target = sel
\* every owner bone name has at least as many mappings in after as in before
OwnersKept(before, after) ==
    \A own \in BoneNames :
        Cardinality(WithOwner(after, own)) >= Cardinality(WithOwner(before, own))

\* C21: no step but the explicit removal makes the collection shorter or takes a mapping
\* out of it, valid or not: an edit of the owner bone keeps the length, every other
\* step keeps, for every owner bone name, the mappings of that name.
C21_OnlyRemoveDrops ==
    [][\/ ListRemove
       \/ (SetOwnerBone /\ Len(mappings') = Len(mappings))
       \/ (Len(mappings') >= Len(mappings) /\ OwnersKept(mappings, mappings'))]_vars

\* C21's case: the target armature was unset under two mappings that name an owner and
\* a target bone, which are now invalid and still there
C21_Witness ==
    /\ last.op = "sync"
    /\ target = None
    /\ Len(mappings) = 2
    /\ \A k \in 1..2 : mappings[k].owner # "" /\ mappings[k].target # ""
                         /\ ~is_valid(W, mappings[k])
\* the distance of two angles
Dist(a, b) == IF a >= b THEN a - b ELSE b - a

\* v is the multiple of a quarter turn nearest to raw
NearestQuarter(v, raw) ==
    /\ v % QuarterTurn = 0
    /\ 2 * Dist(v, raw) <= QuarterTurn

\* C22: with the snap to right angles on, the offset the write of the target bone
\* stores has, on every axis, the multiple of a quarter turn nearest to the Euler
\* component the host computed; an offset is stored whenever a component is nearer to
\* a quarter turn than to zero.
C22_StoredOffsetSnapped ==
    (last.op = "target" /\ \E i \in 1..3 : 2 * Dist(last.raw[i], 0) > QuarterTurn) =>
        /\ \A i \in 1..3 : NearestQuarter(mappings[1].offset[i], last.raw[i])
        /\ mappings[1].has_rotoffs

\* C22's case: the Euler (a little, nearly a quarter turn, a little over a quarter turn
\* backwards) is stored as (0, a quarter turn, a quarter turn backwards)
C22_Witness ==
    /\ last.op = "target"
    /\ last.raw = <<1, QuarterTurn - 1, -QuarterTurn - 1>>
    /\ mappings[1].offset = <<0, QuarterTurn, -QuarterTurn>>
    /\ mappings[1].has_rotoffs
\* in state w, for mapping m: every tagged constraint on the owner bone has the enabled
\* flag of the preview, and the constraint BAC_ROT_COPY is there and points at the
\* target armature and the mapping's target bone
PreviewSynced(w, m) ==
    /\ \A j \in 1..Len(w.cons[m.owner]) :
            w.cons[m.owner][j].tag => w.cons[m.owner][j].enabled = w.preview
    /\ \E j \in 1..Len(w.cons[m.owner]) :
            /\ w.cons[m.owner][j].name = BAC_ROT_COPY
            /\ w.cons[m.owner][j].target = w.target
            /\ w.cons[m.owner][j].subtarget = m.target

\* C23: after the preview is written, to either value, every mapping whose owner bone
\* and target bone resolve has its tagged constraints enabled as the preview says and
\* its rotation copy pointing at the target armature and the target bone.
C23_PreviewSetsEveryFlag ==
    \A e \in BOOLEAN : \A k \in 1..Len(mappings) :
        is_valid(W, mappings[k]) =>
            PreviewSynced(set_preview(W, e), set_preview(W, e).ms[k])

\* C23 where no two mappings share an owner bone
C23_PreviewUniqueOwners ==
    C2_UniqueOwners =>
        \A e \in BOOLEAN : \A k \in 1..Len(mappings) :
            is_valid(W, mappings[k]) =>
                PreviewSynced(set_preview(W, e), set_preview(W, e).ms[k])
\* mapping k of the current state has an owner bone that resolves
OwnerResolves(k) == owner # None /\ mappings[k].owner \in PoseBones(owner)

\* no constraint of the stack carries the tag
NoneTagged(stack) == \A j \in 1..Len(stack) : ~stack[j].tag

\* C24: after the owner bone of a mapping whose owner bone resolves is written, the
\* previous owner bone carries no tagged constraint, the mapping's owner is the name
\* written, and the constraints without the tag on the previous and on the new owner
\* bone are as they were.
C24_OwnerWriteReleasesOld ==
    \A k \in 1..Len(mappings), new \in BoneNames :
        OwnerResolves(k) =>
            /\ NoneTagged(set_selected_owner(W, k, new).cons[mappings[k].owner])
            /\ set_selected_owner(W, k, new).ms[k].owner = new
            /\ \A b \in {mappings[k].owner, new} \cap OwnerBones :
                    Untagged(set_selected_owner(W, k, new).cons[b]) = Untagged(cons[b])

\* C24 for a name other than the previous one, without the constraints of the user
C24_OtherNameReleasesOld ==
    \A k \in 1..Len(mappings) : \A new \in BoneNames \ {mappings[k].owner} :
        OwnerResolves(k) =>
            /\ NoneTagged(set_selected_owner(W, k, new).cons[mappings[k].owner])
            /\ set_selected_owner(W, k, new).ms[k].owner = new

\* C24's third part for a name other than the previous one
C24_OtherNameKeepsForeign ==
    \A k \in 1..Len(mappings) : \A new \in BoneNames \ {mappings[k].owner} :
        OwnerResolves(k) =>
            \A b \in {mappings[k].owner, new} \cap OwnerBones :
                Untagged(set_selected_owner(W, k, new).cons[b]) = Untagged(cons[b])
\* the three toggled kinds
ToggledKinds == {"roll", "loc", "ik"}

\* the reserved constraint name of a toggled kind
KindName(kind) ==
    IF kind = "roll" THEN BAC_ROT_ROLL ELSE IF kind = "loc" THEN BAC_LOC_COPY ELSE BAC_IK

\* the mapping's parameter of a toggled kind
KindParam(m, kind) ==
    IF kind = "roll" THEN m.offset ELSE IF kind = "loc" THEN m.loc_axis ELSE m.ik_influence

\* the state after the toggle of a kind is written on mapping k
WriteToggle(w, k, kind, b) ==
    IF kind = "roll" THEN set_has_rotoffs(w, k, b)
    ELSE IF kind = "loc" THEN set_has_loccopy(w, k, b)
    ELSE set_has_ik(w, k, b)

\* the positions of the tagged constraints of that name in the stack
TaggedNamed(stack, name) == {j \in 1..Len(stack) : stack[j].tag /\ stack[j].name = name}

\* the outcome C25 states for mapping k and a kind: off, no tagged constraint of the kind
\* on the owner bone; on and valid, exactly one, with the mapping's parameter, pointing at
\* the target armature and bone
ToggleOutcome(k, kind) ==
    /\ TaggedNamed(WriteToggle(W, k, kind, FALSE).cons[mappings[k].owner],
                   KindName(kind)) = {}
    /\ is_valid(W, mappings[k]) =>
        /\ Cardinality(TaggedNamed(WriteToggle(W, k, kind, TRUE).cons[mappings[k].owner],
                                   KindName(kind))) = 1
        /\ \A j \in TaggedNamed(WriteToggle(W, k, kind, TRUE).cons[mappings[k].owner],
                                 KindName(kind)) :
            /\ WriteToggle(W, k, kind, TRUE).cons[mappings[k].owner][j].param
                    = KindParam(mappings[k], kind)
            /\ WriteToggle(W, k, kind, TRUE).cons[mappings[k].owner][j].target = target
            /\ WriteToggle(W, k, kind, TRUE).cons[mappings[k].owner][j].subtarget
                    = mappings[k].target

\* C25: after a toggle is switched off on a mapping, no tagged constraint of its kind is
\* on the owner bone; after it is switched on for a valid mapping, exactly one is, with
\* the mapping's parameters; for every mapping whose owner bone resolves, also when its
\* target does not.
C25_ToggleCreatesAndRemoves ==
    \A k \in 1..Len(mappings), kind \in ToggledKinds :
        OwnerResolves(k) => ToggleOutcome(k, kind)

\* C25 for the mappings whose owner bone and target bone resolve
C25_ToggleOnValidMapping ==
    \A k \in 1..Len(mappings), kind \in ToggledKinds :
        is_valid(W, mappings[k]) => ToggleOutcome(k, kind)
\* C26: in every state each owner bone carries at most one tagged constraint of each
\* reserved name, however often the mappings were synchronised.
C26_OneTaggedPerName ==
    \A b \in OwnerBones, name \in ReservedNames :
        Cardinality(TaggedNamed(cons[b], name)) <= 1

\* C26's case: two valid mappings share the owner bone R, the second was synchronised
\* on it after the first, and the bone carries one tagged rotation copy
C26_Witness ==
    /\ last.op = "sync"
    /\ Len(mappings) = 2
    /\ \A k \in 1..2 : mappings[k].owner = "R" /\ is_valid(W, mappings[k])
    /\ Cardinality(TaggedNamed(cons["R"], BAC_ROT_COPY)) = 1
\* a guarded callback that holds the flag of entity e is on the stack
Executing(e) == \E i \in 1..Len(cb_stack) : cb_stack[i].self = e /\ cb_stack[i].holds

\* C27: the is_updating flag of an entity is set only while a guarded callback that set
\* it is executing, also after a body raised; while it is set, a guarded callback called
\* on the entity does not get into its body and the flag stays set.
C27_FlagIsScopedGuard ==
    /\ \A e \in Entities : cb_flags[e] <=> Executing(e)
    /\ \A i \in 1..Len(cb_stack) : \A j \in (i + 1)..Len(cb_stack) :
            (/\ cb_stack[i].holds
             /\ cb_stack[j].self = cb_stack[i].self
             /\ cb_stack[j].fn \in Guarded) => cb_stack[j].pc = 0

\* C27's case: update_active called update_select with the flag set, which returned
\* without its body, and then raised itself; the chain has ended with the flag cleared
C27_Witness ==
    /\ cb_stack = <<>>
    /\ cb_cfg.root = "update_active"
    /\ cb_cfg.sync
    /\ cb_cfg.raised
    /\ cb_calls = 2
    /\ ~cb_flags[0]
\* a mapping from the one child of the owner bone to the one child of the target bone
\* of mappings[i] is in ms
ChildPair(ms, i) ==
    \E k \in 1..Len(ms) :
        /\ ms[k].owner = Children(owner, mappings[i+1].owner)[1]
        /\ ms[k].target = Children(target, mappings[i+1].target)[1]

\* mappings[i] is in the working selection and eligible: both bones resolve and have
\* one child each
EligibleSource(i) ==
    /\ \E p \in 1..Len(get_selection(W)) : get_selection(W)[p] = i
    /\ bones_found(W, i)
    /\ single_children(W, i)

\* C28: the child operator works through the whole working selection: an ineligible
\* mapping in it, one whose bone names are empty or do not resolve included, does not
\* keep an eligible one from getting its child mapping.
C28_ChildBestEffort ==
    (C2_UniqueOwners /\ owner # None /\ target # None) =>
        \A i \in 0..Len(mappings) - 1 :
            EligibleSource(i) => ChildPair(child_mapping(W).ms, i)

\* C28 for a working selection whose bone names all resolve
C28_ChildAllResolving ==
    (C2_UniqueOwners /\ ChildSources(W)) =>
        \A i \in 0..Len(mappings) - 1 :
            EligibleSource(i) => ChildPair(child_mapping(W).ms, i)
\* the selected rows of ms in their order, and the unselected ones
SelectedRows(ms) == SelectSeq(ms, LAMBDA m : m.selected)

UnselectedRows(ms) == SelectSeq(ms, LAMBDA m : ~m.selected)

\* the positions of the selected rows, ascending
SelectedAt(ms) == SelectedAsc(ms, 0, Len(ms) - 1)

\* what C29 states of a reorder from rows before to rows after
ReorderKeeps(before, after) ==
    /\ Len(after) = Len(before)
    /\ SelectedRows(after) = SelectedRows(before)
    /\ UnselectedRows(after) = UnselectedRows(before)
    /\ \A p \in 1..Len(SelectedAt(before)) :
            Dist(SelectedAt(after)[p], SelectedAt(before)[p]) <= 1

\* the first n rows are selected
TopBlock(ms, n) == \A j \in 1..n : ms[j].selected

\* the last n rows are selected
BottomBlock(ms, n) == \A j \in (Len(ms) - n + 1)..Len(ms) : ms[j].selected

\* C29: with a multi-selection, UP and DOWN permute the rows: the selected rows keep
\* their order and so do the unselected ones, no selected row moves by more than one
\* slot, a selected block at the boundary the move goes to stays in place, and no
\* field of a row, nor the counter, nor the length changes.
C29_MultiReorder ==
    selected_count # 0 =>
        /\ ReorderKeeps(mappings, list_up(W).ms)
        /\ ReorderKeeps(mappings, list_down(W).ms)
        /\ list_up(W).count = selected_count
        /\ list_down(W).count = selected_count
        /\ \A n \in 1..Len(mappings) :
            /\ TopBlock(mappings, n) =>
                    SubSeq(list_up(W).ms, 1, n) = SubSeq(mappings, 1, n)
            /\ BottomBlock(mappings, n) =>
                    SubSeq(list_down(W).ms, Len(mappings) - n + 1, Len(mappings))
                        = SubSeq(mappings, Len(mappings) - n + 1, Len(mappings))

\* C29's case: DOWN has moved the selected block of the two upper rows below the
\* unselected third row
C29_Witness ==
    /\ last.op = "DOWN"
    /\ Len(last.ms) = 3
    /\ last.ms[1].selected /\ last.ms[2].selected /\ ~last.ms[3].selected
    /\ mappings = <<last.ms[3], last.ms[1], last.ms[2]>>
\* rows ms with the rows at the 0-based indices i and j exchanged
Swapped(ms, i, j) ==
    [p \in 1..Len(ms) |-> IF p = i + 1 THEN ms[j+1] ELSE IF p = j + 1 THEN ms[i+1] ELSE ms[p]]

\* w is the current state with the active row exchanged with the row at index to, the
\* active index going along
ActiveMovedTo(w, to) ==
    /\ w.ms = Swapped(mappings, active_mapping, to)
    /\ w.active = to
    /\ w.ms[w.active + 1] = mappings[active_mapping + 1]
    /\ w.count = selected_count
    /\ w.cons = cons

\* C30: without a multi-selection, UP and DOWN exchange the active row with its
\* neighbour and the active index goes along, so it names the same mapping as before;
\* at the boundary of the list, and with an active index that names no row, nothing
\* changes.
C30_SingleReorder ==
    selected_count = 0 =>
        /\ IF 0 < active_mapping /\ active_mapping < Len(mappings)
           THEN ActiveMovedTo(list_up(W), active_mapping - 1)
           ELSE list_up(W) = W
        /\ IF 0 <= active_mapping /\ active_mapping < Len(mappings) - 1
           THEN ActiveMovedTo(list_down(W), active_mapping + 1)
           ELSE list_down(W) = W

\* C30's case: DOWN has moved the active middle row of three to the bottom, no row
\* being selected
C30_Witness ==
    /\ last.op = "DOWN"
    /\ selected_count = 0
    /\ Len(last.ms) = 3
    /\ last.ms[2] # last.ms[3]
    /\ mappings = <<last.ms[1], last.ms[3], last.ms[2]>>
    /\ active_mapping = 2
\* the bones of armature obj that a selected mapping names in field f
NamedBySelected(obj, f) ==
    {b \in PoseBones(obj) : \E k \in 1..Len(mappings) : mappings[k].selected /\ mappings[k][f] = b}

\* the host's selection mirrors the selected mappings on both armatures
SelectionMirrors ==
    /\ host.select[owner] = NamedBySelected(owner, "owner")
    /\ host.select[target] = NamedBySelected(target, "target")

\* the operators of SpecSelect that have written selected_count when they end
CountWriters == {"click", "select", "remove"}

\* C31: with sync_select on and both armatures set, after an operator that writes
\* selected_count the bones selected on the owner armature are exactly the existing
\* owner bones of the selected mappings and those on the target armature exactly their
\* target bones; every other bone is deselected.
C31_SelectionReplaced ==
    (last.op \in CountWriters /\ host.sync_select /\ owner # None /\ target # None) =>
        SelectionMirrors

\* C31 with the target armature another object than the owner armature, child and
\* mirror propagation over a multi-selection (whose first step deselects) included
C31_SelectionDistinctArmatures ==
    (/\ \/ last.op \in CountWriters
        \/ last.op \in {"child", "mirror"} /\ last.count > 0
     /\ host.sync_select /\ owner # None /\ target # None /\ target # owner) =>
        SelectionMirrors

\* C31's case: a click has selected the mapping of "L" to "R" while every bone of both
\* armatures was selected in the viewport
C31_Witness ==
    /\ last.op = "click"
    /\ host.sync_select
    /\ target = "T"
    /\ last.select = [obj \in Armatures |-> PoseBones(obj)]
    /\ Len(mappings) = 2
    /\ mappings[1].selected /\ mappings[1].owner = "L" /\ mappings[1].target = "R"
    /\ ~mappings[2].selected
    /\ host.select = [obj \in Armatures |-> IF obj = SceneOwner THEN {"L"} ELSE {"R"}]
\* the host's active bone on armature obj is the bone of the active mapping named in
\* field f, or, the name not resolving, the bone that was active before
ActiveFollows(obj, f) ==
    host.active[obj] = IF mappings[active_mapping + 1][f] \in PoseBones(obj)
                       THEN mappings[active_mapping + 1][f]
                       ELSE last.active[obj]

\* C32: a write of active_mapping with sync_select on recomputes the host's selected
\* bones from the selected mappings (the body of update_select runs inside
\* update_active) and makes the bones of the active mapping the active bones of the two
\* armatures, a name that does not resolve being skipped.
C32_ActiveRecomputesSelection ==
    (last.op = "active" /\ host.sync_select /\ target # owner) =>
        /\ SelectionMirrors
        /\ ActiveFollows(owner, "owner")
        /\ ActiveFollows(target, "target")

\* what the write of active_mapping does with sync_select on: the active bones follow
\* the active mapping, and the selected bones stay as they were
C32_ActiveLeavesSelection ==
    (last.op = "active" /\ host.sync_select /\ target # owner) =>
        /\ host.select = last.select
        /\ ActiveFollows(owner, "owner")
        /\ ActiveFollows(target, "target")
\* the bulk operators that walk the working selection
BulkKinds == {"child", "mirror", "remove"}

\* one pass of the loop of a bulk operator, for index i of the working selection
OnePass(w, i, kind) ==
    IF kind = "child" THEN ChildEach(deselect(w, i), i, <<>>)
    ELSE IF kind = "mirror" THEN MirrorEach(deselect(w, i), i, <<>>)
    ELSE remove_one(w, i)

\* a pass that raises ends the loop: mappings[i] of an index past the end, or the bone
\* lookup of child propagation
PassRaises(w, i, kind) ==
    \/ i + 1 \notin 1..Len(w.ms)
    \/ kind = "child" /\ ~bones_found(w, i)

RECURSIVE Moments(_, _, _)
\* the states in which the loop of a bulk operator takes up the indices of sel, one
\* after the other, followed by the state the loop ends in
Moments(w, sel, kind) ==
    IF sel = <<>> THEN <<w>>
    ELSE IF PassRaises(w, Head(sel), kind)
    THEN <<w, IF Head(sel) + 1 \in 1..Len(w.ms) THEN OnePass(w, Head(sel), kind) ELSE w>>
    ELSE <<w>> \o Moments(OnePass(w, Head(sel), kind), Tail(sel), kind)

\* the list a bulk operator leaves
BulkResult(kind) ==
    IF kind = "child" THEN child_mapping(W).ms
    ELSE IF kind = "mirror" THEN mirror_mapping(W).ms
    ELSE remove_mapping(W).ms

\* index i names in list ms the mapping it names in the current list (a mapping being
\* known by its owner bone, the owners being distinct)
SameMappingAt(ms, i) ==
    /\ i + 1 \in 1..Len(ms)
    /\ ms[i+1].owner = mappings[i+1].owner
    /\ ms[i+1].selected_owner = mappings[i+1].selected_owner

\* C33: in child propagation, mirror propagation and removal over a multi-selection,
\* each index of the working selection names, when the loop takes it up, the mapping
\* it named when the working selection was computed.
C33_IndicesStayValid ==
    (selected_count > 0 /\ C2_UniqueOwners) =>
        \A kind \in BulkKinds :
            /\ \A j \in 1..Len(Moments(W, get_selection(W), kind)) - 1 :
                    SameMappingAt(Moments(W, get_selection(W), kind)[j].ms,
                                  get_selection(W)[j])
            /\ Moments(W, get_selection(W), kind)[Len(Moments(W, get_selection(W), kind))].ms
                    = BulkResult(kind)

\* C33's case: child propagation has run over the two selected mappings "R" and "L" and
\* has rewritten, for the source "L", the mapping of its child "R"
C33_Witness ==
    /\ last.op = "child"
    /\ last.count = 2
    /\ target = "T"
    /\ Len(mappings) = 2
    /\ mappings[1].owner = "L" /\ mappings[1].target = "L" /\ ~mappings[1].selected
    /\ mappings[2].owner = "R" /\ mappings[2].target = "R" /\ mappings[2].selected
\* the positions in the target armature's bone list of the bones that pass the filters
\* of the operator that ran and score above 0 against owner name own
Candidates(own) ==
    {k \in 1..Len(BonesOf(target)) :
        /\ last.prefix = "" \/ startswith(BonesOf(target)[k], last.prefix)
        /\ last.suffix = "" \/ endswith(BonesOf(target)[k], last.suffix)
        /\ quick_ratio(own, BonesOf(target)[k]).num > 0}

\* candidate k scores at least what candidate j scores
ScoresAtLeast(own, k, j) ==
    ~Greater(quick_ratio(own, BonesOf(target)[j]), quick_ratio(own, BonesOf(target)[k]))

\* the first candidate of the maximum score
Winner(own) ==
    CHOOSE k \in Candidates(own) :
        /\ \A j \in Candidates(own) : ScoresAtLeast(own, k, j)
        /\ \A j \in Candidates(own) : ScoresAtLeast(own, j, k) => k <= j

\* the working selection the operator that ran started from
MatchedSelection ==
    get_selection([ms |-> last.ms, count |-> last.count, active |-> last.active])

\* the 0-based index i is in the sequence sel
InSelection(sel, i) == \E j \in 1..Len(sel) : sel[j] = i

\* C34: name matching by similarity writes, for every mapping of the working selection
\* whose owner bone resolves, the target bone of the maximum score against the owner
\* name among the bones passing the prefix and suffix filters, the first in the
\* armature's order on a tie; with no candidate scoring above 0 the target stays, as
\* does the target of every other mapping.
C34_BestMatchWritten ==
    (last.op = "match" /\ ~last.use_hierarchy) =>
        /\ Len(mappings) = Len(last.ms)
        /\ \A i \in 0..Len(mappings) - 1 :
            mappings[i+1].target =
                IF /\ InSelection(MatchedSelection, i)
                   /\ last.ms[i+1].owner \in PoseBones(owner)
                   /\ Candidates(last.ms[i+1].owner) # {}
                THEN BonesOf(target)[Winner(last.ms[i+1].owner)]
                ELSE last.ms[i+1].target

\* C34's case: on the rig without a bone "L", the mapping of "L" got "RL", the first of
\* the three bones that tie, and with it the selected mapping of no owner bone kept its
\* target
C34_Witness ==
    /\ last.op = "match" /\ ~last.use_hierarchy
    /\ last.prefix = "" /\ last.suffix = ""
    /\ target = "N2"
    /\ Len(mappings) = 2
    /\ last.ms[1].selected /\ last.ms[2].selected
    /\ mappings[1].owner = "L" /\ last.ms[1].target = "RR" /\ mappings[1].target = "RL"
    /\ mappings[2].owner = "" /\ mappings[2].target = "RR"
\* the owner's action, by name and fake-user flag
OwnerAction == [name |-> host.action, fake |-> host.fake]

\* C35: Bake renames and keeps an action of the owner only when the bake produced one:
\* when the bake capability raised, the action the owner had before Bake has the name
\* and the fake-user flag it had.
C35_FailedBakeKeepsAction ==
    (last.op = "Bake" /\ last.ran /\ last.res \in {"RuntimeError", "Exception"}) =>
        OwnerAction = last.pre_action

\* C35 for the exceptions Bake does not catch, which leave the operator before the
\* renaming
C35_UncaughtKeepsAction ==
    (last.op = "Bake" /\ last.ran /\ last.res = "Exception") =>
        OwnerAction = last.pre_action
\* the state w with a host that refuses nothing
Unrefused(w) == [w EXCEPT !.host.rejects = HostStart.rejects]

\* the reserved names of the constraint types refused on bone b
RefusedNames(b) ==
    {n \in ReservedNames :
        \/ n = BAC_ROT_COPY /\ "COPY_ROTATION" \in host.rejects[b]
        \/ n = BAC_ROT_ROLL /\ "TRANSFORM" \in host.rejects[b]
        \/ n = BAC_LOC_COPY /\ "COPY_LOCATION" \in host.rejects[b]
        \/ n = BAC_IK /\ "IK" \in host.rejects[b]}

RECURSIVE NotRefused(_, _)
\* the stack of bone b without the constraints of the refused names
NotRefused(stack, b) ==
    IF stack = <<>> THEN <<>>
    ELSE (IF Head(stack).name \in RefusedNames(b) THEN <<>> ELSE <<Head(stack)>>)
            \o NotRefused(Tail(stack), b)

\* the constraints c1 and c2 agree on every bone in everything but the refused names
AgreeButRefused(c1, c2) ==
    \A b \in OwnerBones : NotRefused(c1[b], b) = NotRefused(c2[b], b)

\* C36: when the host refuses to create a constraint in a synchronization pass, the
\* pass of a preview write or a target selection leaves every other kind of that
\* mapping and every other mapping as the pass leaves them with nothing refused.
C36_RefusalIsLocal ==
    /\ \A sel \in TargetChoices :
            AgreeButRefused(update_target(W, sel).cons,
                            update_target(Unrefused(W), sel).cons)
    /\ \A e \in BOOLEAN :
            AgreeButRefused(set_preview(W, e).cons, set_preview(Unrefused(W), e).cons)

\* C36's case: the host refuses the rotation-offset constraint on bone "R"; the batch
\* pass of the target selection has given that bone its rotation copy and its IK
\* constraint all the same, and the other mapping's bone its rotation offset
C36_Witness ==
    /\ last.op = "target"
    /\ target = "T"
    /\ host.rejects["R"] = {"TRANSFORM"}
    /\ Len(mappings) = 2
    /\ \A k \in 1..2 : mappings[k].target = "L" /\ mappings[k].has_rotoffs
    /\ \E k \in 1..2 : mappings[k].owner = "R" /\ mappings[k].has_ik
    /\ IndexOf(cons["R"], BAC_ROT_ROLL) = 0
    /\ IndexOf(cons["R"], BAC_ROT_COPY) # 0
    /\ IndexOf(cons["R"], BAC_IK) # 0
    /\ IndexOf(cons["L"], BAC_ROT_ROLL) # 0

\* the automatic offset of mapping k is not stored when name is picked as its target:
\* the mapping is invalid, an armature is unset, or the snapped offset is zero
NothingComputed(k, name) ==
    \/ owner = None
    \/ target = None
    \/ mappings[k].owner \notin PoseBones(owner)
    \/ name \notin PoseBones(target)
    \/ auto_offset(HostEuler(mappings[k].owner, name)) = 0

TaggedOf(stack) == {stack[i] : i \in {j \in 1..Len(stack) : stack[j].tag}}

\* the owner bones of the mappings get_selection names, those remove_mapping removes
RemovedOwners ==
    {mappings[get_selection(W)[i] + 1].owner : i \in 1..Len(get_selection(W))}

\* the owner bones of the mappings other than mapping k
OtherOwners(k) == {mappings[j].owner : j \in (1..Len(mappings)) \ {k}}

\* C38, removal: remove_mapping leaves the constraints of every bone that none of the
\* removed mappings owns, and the untagged constraints of every bone, as they are
C38_RemovalIsLocal ==
    \A b \in OwnerBones :
        /\ b \notin RemovedOwners => remove_mapping(W).cons[b] = cons[b]
        /\ Untagged(remove_mapping(W).cons[b]) = Untagged(cons[b])

\* C38, owner change: after a write of mapping k's owner bone, every tagged constraint
\* on the owner bone of another mapping is still there, as it was
C38_OwnerChangeSparesOthers ==
    \A k \in 1..Len(mappings), name \in BoneNames :
        \A b \in OtherOwners(k) \cap OwnerBones :
            TaggedOf(cons[b]) \subseteq TaggedOf(set_selected_owner(W, k, name).cons[b])

\* the constraints of a stack whose names start with the prefix "BAC_"
Prefixed(stack) == {i \in 1..Len(stack) : name_startswith(stack[i].name, BAC_Prefix)}

\* C39: after a call of the prototype's apply that returned True, whatever calls and
\* edits went before, the target pose bone the mapping names carries exactly one
\* constraint whose name starts with "BAC_", and on every bone the constraints whose
\* names do not start with "BAC_" are the ones it had before the call
C39_OnePrefixedAfterApply ==
    (last.op = "apply" /\ last.ok) =>
        /\ last.tgt_obj = "T" => Cardinality(Prefixed(cons[mappings[1].target])) = 1
        /\ Unprefixed(cons) = last.pre

\* C39's case: the third call in a row that returned True, on a bone that carries
\* user constraints without the prefix
C39_Witness ==
    /\ last.op = "apply"
    /\ last.ok
    /\ last.oks = MaxApplies
    /\ last.tgt_obj = "T"
    /\ mappings[1].target = "L"
    /\ Len(last.pre["L"]) = 2
    /\ Len(cons["L"]) = 3
====
